---- MODULE Spec2Model ----
(***************************************************************************)
(* A model of itdepends' dual-stream capture pipeline                      *)
(* (src/itdepends/core/audio_capture.py) and of its realtime transcription *)
(* client (src/itdepends/core/transcribe.py).                              *)
(*                                                                         *)
(* SpecCapture : AudioCapture - start/stop, the capture-loop threads and   *)
(*               the chunk dispatcher with its bounded-wait lock.          *)
(* Spec        : RealtimeTranscriber over one connection - start/stop, the *)
(*               connection thread, the inbound event handler, the stall   *)
(*               watchdog, the outbound audio send and the transcript      *)
(*               store with its queries, on a coarse clock.                *)
(* SpecStore   : the same connection while it stays up - start(), the      *)
(*               connection thread and every inbound event - with room     *)
(*               for more chunks than the ring holds.                      *)
(* SpecLifecycle : RealtimeTranscriber over repeated start/stop cycles     *)
(*               with two connection threads, untimed: threads, event      *)
(*               loops, connections and the capture, without the traffic   *)
(*               on an open connection.                                    *)
(* SpecCycle   : one capture loop with each cycle in detail - the two      *)
(*               recordings, their fades, the mix and the conversion to    *)
(*               bytes - followed by the dispatcher.                       *)
(***************************************************************************)
EXTENDS Integers, Sequences, FiniteSets, Bags, TLC

\* ------------------------------------------------------------- bounds ---
\* Largest dispatch frame size (AudioConfig.chunk_size) drawn at construction.
MaxF == 3
\* Largest number of bytes one capture cycle hands to the dispatcher.
MaxChunkLen == 4
\* Number of capture cycles (over all capture threads) a behaviour may run.
MaxCycles == 3
\* Largest number of samples one device recording returns: with four
\* samples the crossfade has a sample to fade at the start.
MaxSamples == 4

\* Number of times the clock may advance.
MaxTicks == 2
\* Seconds by which the clock advances in one step: one step exceeds the
\* processing timeout, two steps exceed the recent window, one does not.
ClockStep == 40
\* Number of chunks a behaviour of Spec may append to the transcript.
MaxAppends == 1
\* Number of chunks a behaviour of SpecStore may append to the transcript.
StoreAppends == 3
\* Number of scheduled, not yet run, audio sends an event loop may hold.
MaxPending == 1
\* Capacity of the chunk ring: transcribe.py line 21 sets 1000; the model
\* scales it down so that appends beyond the capacity are reached.
MAX_CHUNKS == 2

\* Longest array passed to mix_audio_streams on its own.
MaxMixLen == 2
\* Longest array passed to apply_crossfade on its own.
MaxFadeLen == 7
\* Largest counter value from which process_text is still called.
MaxCount == 2

\* ----------------------------------------------------- program constants ---
\* _check_processing_timeout: seconds after which processing counts as stalled.
PROCESSING_TIMEOUT == 5
\* get_recent_chunks: the default window, in seconds.
RECENT_SECONDS == 60
\* AudioConfig.sample_rate, in Hz.
SAMPLE_RATE == 24000
\* apply_crossfade: the default fade, in milliseconds, used on each stream.
FADE_MS == 10
\* _record_and_mix_chunk: the fade, in milliseconds, of the mixed chunk.
FINAL_FADE_MS == 5
\* AudioConfig.mic_volume and system_volume, in tenths.
MIC_VOLUME == 8
SYSTEM_VOLUME == 8
\* The clock's first value: time.time() is positive.
StartTime == 1

\* Identities of the capture-loop threads AudioCapture.start() may create.
CaptureThreads == {1, 2}

\* Identities of the connection threads RealtimeTranscriber.start() may create;
\* thread t runs event loop t and opens websocket t.
ConnThreads == {1, 2}

\* None, for a thread handle, a lock owner, an event loop or a websocket.
NoThread == 0

\* None, for self._processing_start_time.
NoTime == 0

VARIABLES
    \* ---- AudioCapture (audio_capture.py) ----
    chunk_size,           \* self.config.chunk_size, the frame size F
    has_transcriber,      \* self._transcriber is set and has _process_audio_bytes
    system_mic,           \* self._system_mic is set: a loopback device was found
    capture_running,      \* self._running
    capture_thread,       \* self._capture_thread (NoThread = None)
    mixed_buffer,         \* self._mixed_buffer, a sequence of bytes
    mixed_buffer_lock,    \* owner of self._mixed_buffer_lock (NoThread = free)
    cpc,                  \* each capture thread's position
    mixed_bytes,          \* each capture thread's local mixed_bytes
    rec,                  \* each capture thread's two recording results
    \* ---- history (not program state) ----
    forwarded,            \* frames passed to _process_audio_bytes, in order
    accepted,             \* the chunks appended to the buffer under the lock,
                          \* concatenated in order
    produced,             \* bytes produced by capture cycles so far
    ncycles,              \* capture cycles started so far
    dropped_any,          \* some dispatch call has dropped its chunk
    failed_any,           \* some forwarded frame made the transcriber raise
    \* ---- RealtimeTranscriber (transcribe.py) ----
    running,              \* self._running
    websocket,            \* self._websocket (NoThread = None)
    loop,                 \* self._loop (NoThread = None)
    thread,               \* self._thread (NoThread = None)
    session_data,         \* self._session_data: "None", "nosecret", "ok"
    client_secret,        \* self._client_secret is set
    processing_start_time,\* self._processing_start_time (NoTime = None)
    full_transcript,      \* self._full_transcript, a sequence of characters
    chunks,               \* self._chunks, a sequence of <<text, timestamp>>
    has_callback,         \* self._callback is set
    tpc,                  \* each connection thread's position
    ws_open,              \* each websocket's connection is open
    wd,                   \* each connection's watchdog task: "none", "alive", "done"
    scheduled,            \* coroutines scheduled on each event loop, not yet run
    await_ws,             \* the websocket a handler's commit send is awaiting
    mpc,                  \* the caller of start()/stop(): "idle", or where it
                          \* stands in stop()
    now,                  \* time.time(), in seconds
    \* ---- history (not program state) ----
    out,                  \* what the last step did with outbound messages
    stop_log,             \* the steps the stop() call under way has taken
    marker_src,           \* the most recent marker-affecting event
    all_appended,         \* every chunk ever appended to the store, in order
    callback_log,         \* the arguments of every call of self._callback
    \* ---- bounds of a behaviour, fixed when it starts ----
    conn_pool,            \* the connection threads start() may still create
    appends_left,         \* the chunks the behaviour may still append
    \* ---- a call of one of the module's functions on its own ----
    fn_args,              \* the function called and its arguments
    fn_result,            \* what the call returned, once it has
    \* ---- CounterManager (counter.py) ----
    configs,              \* self.configs, the configs in insertion order
    counters,             \* self.counters, name -> value
    callbacks,            \* self.callbacks, name -> callback
    \* ---- history (not program state) ----
    matches,              \* name -> matches the evaluator has reported for
                          \* the counter since it was added or last reset
    last_call             \* the last process_text call: the evaluator's
                          \* answers, the callback calls, the outcome

capture_vars == <<chunk_size, has_transcriber, system_mic, rec,
                  capture_running, capture_thread,
                  mixed_buffer, mixed_buffer_lock, cpc, mixed_bytes,
                  forwarded, accepted, produced, ncycles, dropped_any, failed_any>>

trans_vars == <<running, websocket, loop, thread, session_data, client_secret,
                processing_start_time, tpc, ws_open, wd, scheduled, await_ws,
                mpc, stop_log, now, out, marker_src>>

store_vars == <<full_transcript, chunks, has_callback, all_appended,
                callback_log,
                conn_pool, appends_left, fn_args, fn_result,
                configs, counters, callbacks, matches, last_call>>

vars == <<capture_vars, trans_vars, store_vars>>

\* ---------------------------------------------------------- sequences ---
Min(a, b) == IF a <= b THEN a ELSE b

\* Python's s[:n] for n >= 0.
Take(s, n) == SubSeq(s, 1, Min(n, Len(s)))

\* Python's s[n:] for n >= 0.
Drop(s, n) == SubSeq(s, Min(n, Len(s)) + 1, Len(s))

\* The bytes k+1 .. k+n: the n bytes a cycle produces after k earlier ones.
Bytes(k, n) == [i \in 1..n |-> k + i]

\* ------------------------------------------------------ AudioCapture ---
cap_ctl == <<capture_running, capture_thread, cpc>>

cap_data == <<chunk_size, has_transcriber, system_mic, rec, mixed_buffer,
              mixed_buffer_lock,
              mixed_bytes, forwarded, accepted, produced, ncycles, dropped_any, failed_any>>

\* A recording result before its thread has written it: [None, False].
NoRecording == [ok |-> FALSE, data |-> << >>]

\* AudioCapture.__init__ with frame size F; ht: a transcriber is attached;
\* sm: _initialize_devices has found a loopback device.
CaptureInitWith(F, ht, sm) ==
    /\ chunk_size = F
    /\ has_transcriber = ht
    /\ system_mic = sm
    /\ rec = [t \in CaptureThreads |-> [mic |-> NoRecording,
                                        sys |-> NoRecording]]
    /\ capture_running = FALSE
    /\ capture_thread = NoThread
    /\ mixed_buffer = << >>
    /\ mixed_buffer_lock = NoThread
    /\ cpc = [t \in CaptureThreads |-> "unborn"]
    /\ mixed_bytes = [t \in CaptureThreads |-> << >>]
    /\ forwarded = << >>
    /\ accepted = << >>
    /\ produced = 0
    /\ ncycles = 0
    /\ dropped_any = FALSE
    /\ failed_any = FALSE

\* AudioCapture.start() on the capture-control state: a no-op while _running;
\* otherwise sets the flag and starts a new capture thread; a thread that
\* cannot be started clears the flag again.
ACStartCall ==
    IF capture_running
    THEN UNCHANGED cap_ctl
    ELSE \E t \in CaptureThreads :
            /\ cpc[t] = "unborn"
            /\ \A u \in CaptureThreads : u < t => cpc[u] # "unborn"
            /\ capture_thread' = t
            /\ \/ /\ capture_running' = TRUE
                  /\ cpc' = [cpc EXCEPT ![t] = "top"]
               \/ /\ capture_running' = FALSE
                  /\ cpc' = [cpc EXCEPT ![t] = "exited"]

\* AudioCapture.stop() on the capture-control state: clears the flag, then
\* joins the capture thread for at most 2 s; the join changes no state, and
\* the thread may outlive it.
ACStopCall ==
    /\ capture_running' = FALSE
    /\ UNCHANGED <<capture_thread, cpc>>

\* A caller invokes AudioCapture.start().
ACStart ==
    /\ ACStartCall
    /\ UNCHANGED <<cap_data, trans_vars, store_vars>>

\* A caller invokes AudioCapture.stop().
ACStop ==
    /\ ACStopCall
    /\ UNCHANGED <<cap_data, trans_vars, store_vars>>

\* _continuous_capture: the while test finds the flag clear; the thread ends.
LoopExit(t) ==
    /\ cpc[t] = "top"
    /\ ~capture_running
    /\ cpc' = [cpc EXCEPT ![t] = "exited"]
    /\ UNCHANGED <<capture_running, capture_thread, cap_data>>

\* A while loop that starts a cycle whatever the flag says.
LoopEnter_IgnoresFlag(t) ==
    /\ cpc[t] = "top"
    /\ ncycles < MaxCycles
    /\ ncycles' = ncycles + 1
    /\ cpc' = [cpc EXCEPT ![t] = "cycle"]
    /\ UNCHANGED <<chunk_size, has_transcriber, system_mic, rec,
                   capture_running, capture_thread,
                   mixed_buffer, mixed_buffer_lock, mixed_bytes, forwarded, accepted,
                   produced, dropped_any, failed_any>>

\* _continuous_capture: the while test finds the flag set; a cycle starts.
LoopEnter(t) ==
    /\ cpc[t] = "top"
    /\ capture_running
    /\ ncycles < MaxCycles
    /\ ncycles' = ncycles + 1
    /\ cpc' = [cpc EXCEPT ![t] = "cycle"]
    /\ UNCHANGED <<chunk_size, has_transcriber, system_mic, rec,
                   capture_running, capture_thread,
                   mixed_buffer, mixed_buffer_lock, mixed_bytes, forwarded, accepted,
                   produced, dropped_any, failed_any>>

\* _continuous_capture: the while test at the top of each cycle.
LoopTop(t) ==
    /\ LoopExit(t) \/ LoopEnter(t)
    /\ UNCHANGED <<trans_vars, store_vars>>

\* A capture loop that a failed cycle ends.
RecordAndMix_FailureEndsLoop(t) ==
    /\ cpc[t] = "cycle"
    /\ \/ /\ cpc' = [cpc EXCEPT ![t] = "exited"]
          /\ UNCHANGED <<mixed_bytes, produced>>
       \/ \E n \in 1..MaxChunkLen :
            /\ mixed_bytes' = [mixed_bytes EXCEPT ![t] = Bytes(produced, n)]
            /\ produced' = produced + n
            /\ cpc' = [cpc EXCEPT ![t] = "send"]
    /\ UNCHANGED <<chunk_size, has_transcriber, system_mic, rec,
                   capture_running, capture_thread,
                   mixed_buffer, mixed_buffer_lock, forwarded, accepted, ncycles,
                   dropped_any, failed_any, trans_vars, store_vars>>

\* One _record_and_mix_chunk call and the int16 conversion, by their outcome
\* alone: either nothing to send (None, an empty mix, or an exception the
\* loop swallows) or n bytes. RecordStreams and MixChunk below are the same
\* cycle in detail.
RecordAndMix(t) ==
    /\ cpc[t] = "cycle"
    /\ \/ /\ cpc' = [cpc EXCEPT ![t] = "top"]
          /\ UNCHANGED <<mixed_bytes, produced>>
       \/ \E n \in 1..MaxChunkLen :
            /\ mixed_bytes' = [mixed_bytes EXCEPT ![t] = Bytes(produced, n)]
            /\ produced' = produced + n
            /\ cpc' = [cpc EXCEPT ![t] = "send"]
    /\ UNCHANGED <<chunk_size, has_transcriber, system_mic, rec,
                   capture_running, capture_thread,
                   mixed_buffer, mixed_buffer_lock, forwarded, accepted, ncycles,
                   dropped_any, failed_any, trans_vars, store_vars>>

\* _record_and_mix_chunk, a device recording that never returns: the loop
\* thread waits in mic_thread.join() or system_thread.join(), which take no
\* timeout, and no step of the thread follows.
RecordHangs(t) ==
    /\ cpc[t] = "cycle"
    /\ cpc' = [cpc EXCEPT ![t] = "joining"]
    /\ UNCHANGED <<capture_running, capture_thread, cap_data, trans_vars,
                   store_vars>>

\* ---- one record-and-mix cycle in detail ----
\* A sample is modelled by what it is made of: mic = 1 when sound recorded
\* from the microphone is in it, sys = 1 when sound recorded from the
\* loopback device is in it, and ops lists, in order, the operations applied
\* to its value. A sample with neither sound is exactly 0.0, and every
\* operation of the module maps 0.0 to 0.0: it is ZeroSample whatever has
\* been applied to it. Recorded amplitudes are 0 (silence) or 1 (sound): no
\* two samples cancel in a sum.
ZeroSample == [mic |-> 0, sys |-> 0, ops |-> << >>]

\* The operations on a sample value: x * (num / den), np.tanh(x), x + y
\* (the bag of the two summands: float addition is commutative), and the
\* gain target_rms / rms of normalize_audio_level, which depends on the
\* whole array.
Mul(num, den) == [op |-> "mul", num |-> num, den |-> den, terms |-> EmptyBag]
Tanh == [op |-> "tanh", num |-> 1, den |-> 1, terms |-> EmptyBag]
RmsGain == [op |-> "rms_gain", num |-> 1, den |-> 1, terms |-> EmptyBag]
Sum(x, y) ==
    [op |-> "sum", num |-> 1, den |-> 1,
     terms |-> SetToBag({x}) (+) SetToBag({y})]

\* Operation o applied to sample x.
Apply(x, o) ==
    IF x = ZeroSample THEN ZeroSample ELSE [x EXCEPT !.ops = Append(@, o)]

\* x * (num / den): 0.0 when either factor is, x itself when the factor is
\* 1.0.
Times(x, num, den) ==
    IF x = ZeroSample \/ num = 0 THEN ZeroSample
    ELSE IF num = den THEN x
    ELSE Apply(x, Mul(num, den))

\* x + y: adding 0.0 changes nothing.
Plus(x, y) ==
    IF x = ZeroSample THEN y
    ELSE IF y = ZeroSample THEN x
    ELSE [mic |-> IF x.mic > y.mic THEN x.mic ELSE y.mic,
          sys |-> IF x.sys > y.sys THEN x.sys ELSE y.sys,
          ops |-> <<Sum(x, y)>>]

\* audio * ratio, the ratio in tenths.
Scale(audio, ratio) == [i \in DOMAIN audio |-> Times(audio[i], ratio, 10)]

\* The recordings a device can return: silence or sound, one sample long
\* or MaxSamples long.
Silence(n) == [i \in 1..n |-> 0]
Sound(n) == [i \in 1..n |-> 1]
Recordings ==
    {Silence(n) : n \in {1, MaxSamples}} \cup
    {Sound(n) : n \in {1, MaxSamples}}

\* The samples of a recording of amplitudes amps from stream src.
StreamSamples(src, amps) ==
    [i \in DOMAIN amps |->
        IF amps[i] = 0 THEN ZeroSample
        ELSE IF src = "mic" THEN [mic |-> 1, sys |-> 0, ops |-> << >>]
        ELSE [mic |-> 0, sys |-> 1, ops |-> << >>]]

\* record_device_to_memory: (array([]), False) when the device is missing
\* (device.record raises on None), when recording raises, or when it
\* returns nothing; otherwise (data, True) with data not empty.
record_device_to_memory(device_set, src) ==
    {NoRecording} \cup
    (IF device_set
     THEN {[ok |-> TRUE, data |-> StreamSamples(src, amps)] :
             amps \in Recordings}
     ELSE {})

\* normalize_audio_level: an empty or all-zero array is returned as it is;
\* otherwise every sample is multiplied by the rms gain, then limited by
\* tanh(x * 0.9) * 0.8.
normalize_audio_level(audio_data) ==
    IF Len(audio_data) = 0 THEN audio_data
    ELSE IF \E i \in 1..Len(audio_data) : audio_data[i] # ZeroSample
    THEN [i \in 1..Len(audio_data) |->
            Times(Apply(Times(Apply(audio_data[i], RmsGain), 9, 10), Tanh),
                  8, 10)]
    ELSE audio_data

\* np.linspace(start, stop, n)[i - 1] for start, stop in {0, 1}, as the
\* fraction <<numerator, denominator>>.
Linspace(start, stop, n, i) ==
    IF n = 1 \/ start = stop THEN <<start, 1>>
    ELSE IF start = 0 THEN <<i - 1, n - 1>>
    ELSE <<n - i, n - 1>>

\* A fade that never shrinks to the buffer.
FadeSamples_NoShrink(len, sample_rate, fade_duration_ms) ==
    (fade_duration_ms * sample_rate) \div 1000

\* apply_crossfade: the number of samples faded at each end.
FadeSamples(len, sample_rate, fade_duration_ms) ==
    LET fade_samples == (fade_duration_ms * sample_rate) \div 1000
    IN  IF len <= 2 * fade_samples THEN len \div 4 ELSE fade_samples

\* apply_crossfade: the first fade_samples samples are multiplied by
\* linspace(0, 1, fade_samples), then the last ones by linspace(1, 0,
\* fade_samples).
apply_crossfade(audio, sample_rate, fade_duration_ms) ==
    IF Len(audio) = 0 THEN audio
    ELSE LET n == Len(audio)
             fade_samples == FadeSamples(n, sample_rate, fade_duration_ms)
             fade_in(i) == Linspace(0, 1, fade_samples, i)
             fade_out(i) == Linspace(1, 0, fade_samples, i)
             faded_in ==
                 [i \in 1..n |->
                    IF i <= fade_samples
                    THEN Times(audio[i], fade_in(i)[1], fade_in(i)[2])
                    ELSE audio[i]]
         IN  IF fade_samples <= 0 THEN audio
             ELSE [i \in 1..n |->
                     IF i > n - fade_samples
                     THEN Times(faded_in[i],
                                fade_out(i - (n - fade_samples))[1],
                                fade_out(i - (n - fade_samples))[2])
                     ELSE faded_in[i]]

\* np.pad(audio, (0, n - len(audio)), "constant").
PadWithSilence(audio, n) ==
    [i \in 1..n |-> IF i <= Len(audio) THEN audio[i] ELSE ZeroSample]

\* np.tanh((a * mic_ratio + b * system_ratio) * 0.8) * 0.85; the rescaling
\* under a peak above 0.95 never applies to values of at most 0.85.
MixSamples(a, b, mic_ratio, system_ratio) ==
    Times(Apply(Times(Plus(Times(a, mic_ratio, 10),
                           Times(b, system_ratio, 10)), 8, 10), Tanh),
          85, 100)

\* A mix that lets the microphone stream through alone.
mix_audio_streams_MicOnly(mic_audio, system_audio, mic_ratio, system_ratio) ==
    Scale(mic_audio, mic_ratio)

\* A mix that scales a lone stream by the microphone's ratio, whichever
\* stream it is.
mix_audio_streams_OneRatio(mic_audio, system_audio, mic_ratio, system_ratio) ==
    IF Len(mic_audio) = 0 /\ Len(system_audio) = 0 THEN << >>
    ELSE IF Len(mic_audio) = 0 THEN Scale(system_audio, mic_ratio)
    ELSE IF Len(system_audio) = 0 THEN Scale(mic_audio, mic_ratio)
    ELSE LET max_length == IF Len(mic_audio) >= Len(system_audio)
                           THEN Len(mic_audio) ELSE Len(system_audio)
         IN  [i \in 1..max_length |->
                MixSamples(PadWithSilence(mic_audio, max_length)[i],
                           PadWithSilence(system_audio, max_length)[i],
                           mic_ratio, system_ratio)]

\* mix_audio_streams, the ratios in tenths.
mix_audio_streams(mic_audio, system_audio, mic_ratio, system_ratio) ==
    IF Len(mic_audio) = 0 /\ Len(system_audio) = 0 THEN << >>
    ELSE IF Len(mic_audio) = 0 THEN Scale(system_audio, system_ratio)
    ELSE IF Len(system_audio) = 0 THEN Scale(mic_audio, mic_ratio)
    ELSE LET max_length == IF Len(mic_audio) >= Len(system_audio)
                           THEN Len(mic_audio) ELSE Len(system_audio)
         IN  [i \in 1..max_length |->
                MixSamples(PadWithSilence(mic_audio, max_length)[i],
                           PadWithSilence(system_audio, max_length)[i],
                           mic_ratio, system_ratio)]

\* _record_and_mix_chunk after its two joins, r holding the two results;
\* << >> stands for None.
record_and_mix_chunk(r) ==
    IF ~r.mic.ok /\ ~r.sys.ok THEN << >>
    ELSE LET mic_audio ==
                 IF r.mic.ok /\ Len(r.mic.data) > 0
                 THEN apply_crossfade(r.mic.data, SAMPLE_RATE, FADE_MS)
                 ELSE r.mic.data
             system_audio ==
                 IF r.sys.ok /\ Len(r.sys.data) > 0
                 THEN apply_crossfade(r.sys.data, SAMPLE_RATE, FADE_MS)
                 ELSE r.sys.data
             mixed_audio ==
                 mix_audio_streams(IF r.mic.ok THEN mic_audio ELSE << >>,
                                   IF r.sys.ok THEN system_audio ELSE << >>,
                                   MIC_VOLUME, SYSTEM_VOLUME)
         IN  IF Len(mixed_audio) > 0
             THEN apply_crossfade(mixed_audio, SAMPLE_RATE, FINAL_FADE_MS)
             ELSE << >>

\* (mixed_audio * 32767).astype(np.int16).tobytes(): two bytes a sample,
\* each byte written here as the sample it belongs to.
ToInt16Bytes(audio) ==
    [i \in 1..(2 * Len(audio)) |-> audio[(i + 1) \div 2]]

\* _record_and_mix_chunk up to its joins: both device threads have ended and
\* have written their results.
RecordStreams(t) ==
    /\ cpc[t] = "cycle"
    /\ \E m \in record_device_to_memory(TRUE, "mic"),
          y \in record_device_to_memory(system_mic, "sys") :
            rec' = [rec EXCEPT ![t] = [mic |-> m, sys |-> y]]
    /\ cpc' = [cpc EXCEPT ![t] = "recorded"]
    /\ UNCHANGED <<chunk_size, has_transcriber, system_mic, capture_running,
                   capture_thread, mixed_buffer, mixed_buffer_lock,
                   mixed_bytes, forwarded, accepted, produced, ncycles, dropped_any,
                   failed_any, trans_vars, store_vars>>

\* The rest of the cycle: the two results are faded and mixed; a chunk that
\* is not None and not empty is converted to bytes for the dispatcher.
MixChunk(t) ==
    /\ cpc[t] = "recorded"
    /\ LET mixed_audio == record_and_mix_chunk(rec[t])
       IN  IF Len(mixed_audio) > 0
           THEN /\ mixed_bytes' =
                     [mixed_bytes EXCEPT ![t] = ToInt16Bytes(mixed_audio)]
                /\ produced' = produced + 2 * Len(mixed_audio)
                /\ cpc' = [cpc EXCEPT ![t] = "send"]
           ELSE /\ cpc' = [cpc EXCEPT ![t] = "top"]
                /\ UNCHANGED <<mixed_bytes, produced>>
    /\ rec' = [rec EXCEPT ![t] = [mic |-> NoRecording, sys |-> NoRecording]]
    /\ UNCHANGED <<chunk_size, has_transcriber, system_mic, capture_running,
                   capture_thread, mixed_buffer, mixed_buffer_lock, forwarded, accepted,
                   ncycles, dropped_any, failed_any, trans_vars, store_vars>>

\* Two slips of the dispatcher's while test: looping while any byte is left,
\* and an off-by-one that leaves a whole frame behind.
HasFullFrame_AnyByte(buf) == Len(buf) > 0
HasFullFrame_OffByOne(buf) == Len(buf) > chunk_size

\* The dispatcher's while test: the buffer holds at least one frame.
HasFullFrame(buf) == Len(buf) >= chunk_size

\* _send_mixed_audio_data, lock acquired: the chunk is appended to the buffer.
SendAcquire(t) ==
    /\ cpc[t] = "send"
    /\ mixed_buffer_lock = NoThread
    /\ mixed_buffer_lock' = t
    /\ mixed_buffer' = mixed_buffer \o mixed_bytes[t]
    /\ accepted' = accepted \o mixed_bytes[t]
    /\ cpc' = [cpc EXCEPT ![t] = "locked"]
    /\ UNCHANGED <<chunk_size, has_transcriber, system_mic, rec,
                   capture_running, capture_thread,
                   mixed_bytes, forwarded, produced, ncycles, dropped_any,
                   failed_any, trans_vars, store_vars>>

\* A dispatcher that, its wait for the lock over, extends the buffer anyway.
SendTimeout_ExtendsAnyway(t) ==
    /\ cpc[t] = "send"
    /\ mixed_buffer_lock # NoThread
    /\ cpc' = [cpc EXCEPT ![t] = "top"]
    /\ mixed_buffer' = mixed_buffer \o mixed_bytes[t]
    /\ mixed_bytes' = [mixed_bytes EXCEPT ![t] = << >>]
    /\ dropped_any' = TRUE
    /\ UNCHANGED <<chunk_size, has_transcriber, system_mic, rec,
                   capture_running, capture_thread,
                   mixed_buffer_lock, forwarded, accepted, produced, ncycles,
                   failed_any, trans_vars, store_vars>>

\* _send_mixed_audio_data, acquire(timeout=0.1) returned False: the chunk is
\* dropped and the call returns.
SendTimeout(t) ==
    /\ cpc[t] = "send"
    /\ mixed_buffer_lock # NoThread
    /\ cpc' = [cpc EXCEPT ![t] = "top"]
    /\ mixed_bytes' = [mixed_bytes EXCEPT ![t] = << >>]
    /\ dropped_any' = TRUE
    /\ UNCHANGED <<chunk_size, has_transcriber, system_mic, rec,
                   capture_running, capture_thread,
                   mixed_buffer, mixed_buffer_lock, forwarded, accepted, produced, ncycles,
                   failed_any, trans_vars, store_vars>>

\* A dispatcher whose forwarding error escapes the while loop: the frame is
\* gone, the lock is released and the call returns.
SliceAndForward_ErrorEndsLoop(t) ==
    /\ cpc[t] = "locked"
    /\ mixed_buffer_lock = t
    /\ HasFullFrame(mixed_buffer)
    /\ mixed_buffer' = Drop(mixed_buffer, chunk_size)
    /\ IF has_transcriber
       THEN /\ forwarded' = Append(forwarded, Take(mixed_buffer, chunk_size))
            /\ \E raised \in BOOLEAN :
                 /\ failed_any' = (failed_any \/ raised)
                 /\ IF raised
                    THEN /\ mixed_buffer_lock' = NoThread
                         /\ cpc' = [cpc EXCEPT ![t] = "top"]
                         /\ mixed_bytes' = [mixed_bytes EXCEPT ![t] = << >>]
                    ELSE UNCHANGED <<mixed_buffer_lock, cpc, mixed_bytes>>
       ELSE UNCHANGED <<forwarded, failed_any, mixed_buffer_lock, cpc,
                        mixed_bytes>>
    /\ UNCHANGED <<chunk_size, has_transcriber, system_mic, rec,
                   capture_running, capture_thread, produced, ncycles,
                   accepted, dropped_any, trans_vars, store_vars>>

\* A dispatcher whose slice leaves the buffer one byte short.
SliceAndForward_SkipsByte(t) ==
    /\ cpc[t] = "locked"
    /\ mixed_buffer_lock = t
    /\ HasFullFrame(mixed_buffer)
    /\ mixed_buffer' = Drop(mixed_buffer, chunk_size + 1)
    /\ IF has_transcriber
       THEN /\ forwarded' = Append(forwarded, Take(mixed_buffer, chunk_size))
            /\ \E raised \in BOOLEAN : failed_any' = (failed_any \/ raised)
       ELSE UNCHANGED <<forwarded, failed_any>>
    /\ UNCHANGED <<chunk_size, has_transcriber, system_mic, rec,
                   capture_running, capture_thread,
                   mixed_buffer_lock, cpc, mixed_bytes, produced, ncycles,
                   accepted, dropped_any, trans_vars, store_vars>>

\* One iteration of the dispatcher's while loop: slice one frame off the
\* buffer and forward it; an exception raised by the transcriber is swallowed.
SliceAndForward(t) ==
    /\ cpc[t] = "locked"
    /\ mixed_buffer_lock = t
    /\ HasFullFrame(mixed_buffer)
    /\ mixed_buffer' = Drop(mixed_buffer, chunk_size)
    /\ IF has_transcriber
       THEN /\ forwarded' = Append(forwarded, Take(mixed_buffer, chunk_size))
            /\ \E raised \in BOOLEAN : failed_any' = (failed_any \/ raised)
       ELSE UNCHANGED <<forwarded, failed_any>>
    /\ UNCHANGED <<chunk_size, has_transcriber, system_mic, rec,
                   capture_running, capture_thread,
                   mixed_buffer_lock, cpc, mixed_bytes, produced, ncycles,
                   accepted, dropped_any, trans_vars, store_vars>>

\* The while loop ends, the finally clause releases the lock, the call returns.
SendRelease(t) ==
    /\ cpc[t] = "locked"
    /\ mixed_buffer_lock = t
    /\ ~HasFullFrame(mixed_buffer)
    /\ mixed_buffer_lock' = NoThread
    /\ cpc' = [cpc EXCEPT ![t] = "top"]
    /\ mixed_bytes' = [mixed_bytes EXCEPT ![t] = << >>]
    /\ UNCHANGED <<chunk_size, has_transcriber, system_mic, rec,
                   capture_running, capture_thread,
                   mixed_buffer, forwarded, accepted, produced, ncycles, dropped_any,
                   failed_any, trans_vars, store_vars>>

CaptureThreadStep ==
    \E t \in CaptureThreads :
        \/ LoopTop(t)
        \/ RecordAndMix(t)
        \/ RecordHangs(t)
        \/ SendAcquire(t)
        \/ SendTimeout(t)
        \/ SliceAndForward(t)
        \/ SendRelease(t)

CaptureNext ==
    \/ ACStart
    \/ ACStop
    \/ CaptureThreadStep

\* --------------------------------------------------------------- text ---
RECURSIVE LStrip(_), RStrip(_)

\* str.lstrip() / str.rstrip() / str.strip(); " " is the whitespace character.
LStrip(s) == IF s # << >> /\ s[1] = " " THEN LStrip(Tail(s)) ELSE s

RStrip(s) ==
    IF s # << >> /\ s[Len(s)] = " " THEN RStrip(SubSeq(s, 1, Len(s) - 1)) ELSE s

Strip(s) == RStrip(LStrip(s))

\* str.isspace(): non-empty and whitespace only.
IsSpace(s) == s # << >> /\ \A i \in 1..Len(s) : s[i] = " "

\* Transcript and delta payloads of inbound events, as the server sends them.
BlankTexts == {<< >>, <<" ">>}
SpokenTexts == {<<"a">>, <<" ", "b", " ">>}

EventTypes == {"speech_stopped", "committed", "completed", "delta", "failed",
               "other", "malformed"}

\* The inbound messages whose transcript/delta payloads are drawn from texts.
Events(texts) ==
    [type : EventTypes \ {"completed", "delta"}, transcript : {<< >>}]
      \cup [type : {"completed", "delta"}, transcript : texts]

\* -------------------------------------------------- Transcript store ---
\* A slip of the ring append: a full ring keeps growing.
RingAppend_NoEvict(ring, x) == Append(ring, x)

\* deque(maxlen=MAX_CHUNKS).append: a full ring drops its oldest entry.
RingAppend(ring, x) ==
    IF Len(ring) >= MAX_CHUNKS THEN Append(Tail(ring), x) ELSE Append(ring, x)

\* A slip of the transcript update: the new text is put in front.
JoinTranscript_Prepend(full, text) ==
    IF full # << >> THEN text \o <<" ">> \o full ELSE text

\* A slip of the transcript update: the separator is left out.
JoinTranscript_NoSeparator(full, text) == full \o text

\* _update_transcript: the full transcript grows by " " + new_text.
JoinTranscript(full, text) ==
    IF full # << >> THEN full \o <<" ">> \o text ELSE text

\* get_full_transcript().
get_full_transcript == full_transcript

\* get_chunks().
get_chunks == chunks

\* get_recent_chunks(seconds): the held chunks not older than the cutoff.
get_recent_chunks(seconds) ==
    SelectSeq(chunks, LAMBDA c : c[2] >= now - seconds)

\* ----------------------------------------------- RealtimeTranscriber ---
NoSends == << >>

EmptyQueue == [appends |-> 0, close |-> NoThread]

\* RealtimeTranscriber.__init__; cb: a callback was passed. The behaviour may
\* create the connection threads of pool and append budget chunks.
TransInitWith(cb, pool, budget) ==
    /\ conn_pool = pool
    /\ appends_left = budget
    /\ running = FALSE
    /\ websocket = NoThread
    /\ loop = NoThread
    /\ thread = NoThread
    /\ session_data = "None"
    /\ client_secret = FALSE
    /\ processing_start_time = NoTime
    /\ full_transcript = << >>
    /\ chunks = << >>
    /\ has_callback = cb
    /\ tpc = [t \in ConnThreads |-> "unborn"]
    /\ ws_open = [t \in ConnThreads |-> FALSE]
    /\ wd = [t \in ConnThreads |-> "none"]
    /\ scheduled = [t \in ConnThreads |-> EmptyQueue]
    /\ await_ws = [t \in ConnThreads |-> NoThread]
    /\ mpc = "idle"
    /\ stop_log = << >>
    /\ now = StartTime
    /\ out = NoSends
    /\ marker_src = "none"
    /\ all_appended = << >>
    /\ callback_log = << >>

\* bool(self._session_data): None is falsy, a response body is not.
Truthy(sd) == sd \in {"nosecret", "ok"}

\* The event loop of thread t exists and is not closed.
LoopOpen(t) == t # NoThread /\ tpc[t] \notin {"unborn", "born", "exited"}

\* Thread t has been started and has not finished (Thread.is_alive()).
IsAlive(t) == t # NoThread /\ tpc[t] \notin {"unborn", "exited"}

\* The results a websocket.send on websocket w can have.
SendResults(w) == IF ws_open[w] THEN {"sent", "failed"} ELSE {"failed"}

\* _send_message(message) run now: skipped when self._websocket is unset,
\* otherwise one websocket.send, whose exception is suppressed.
SendMessage(type) ==
    IF websocket = NoThread
    THEN {[type |-> type, result |-> "skipped", ws |-> NoThread]}
    ELSE {[type |-> type, result |-> r, ws |-> websocket] :
            r \in SendResults(websocket)}

\* start() while already running: nothing happens.
TStartNoop ==
    /\ running
    /\ out' = NoSends
    /\ UNCHANGED <<running, thread, tpc, session_data, client_secret>>

\* A start() that would set the flag although the bootstrap has failed.
TStartBootstrapFailed_SetsRunning ==
    /\ ~running
    /\ running' = TRUE
    /\ out' = NoSends
    /\ UNCHANGED <<thread, tpc, session_data, client_secret>>

\* start(), _create_transcription_session fails: the request raises (the
\* session fields keep their values), or the response holds no credential.
TStartBootstrapFailed ==
    /\ ~running
    /\ \/ UNCHANGED <<session_data, client_secret>>
       \/ /\ session_data' = "nosecret"
          /\ client_secret' = FALSE
    /\ out' = NoSends
    /\ UNCHANGED <<running, thread, tpc>>

\* start(), bootstrap succeeded: the flag is set and a thread is started.
TStartOk ==
    /\ ~running
    /\ session_data' = "ok"
    /\ client_secret' = TRUE
    /\ running' = TRUE
    /\ \E t \in conn_pool :
        /\ tpc[t] = "unborn"
        /\ \A u \in conn_pool : u < t => tpc[u] # "unborn"
        /\ thread' = t
        /\ tpc' = [tpc EXCEPT ![t] = "born"]
        /\ out' = NoSends

\* RealtimeTranscriber.start().
TStart ==
    /\ mpc = "idle"
    /\ \/ TStartNoop
       \/ TStartBootstrapFailed
       \/ TStartOk
    /\ UNCHANGED <<websocket, loop, processing_start_time, ws_open, wd,
                   scheduled, await_ws, mpc, stop_log, now, marker_src,
                   capture_vars, store_vars>>

\* _run_event_loop, first statements: the thread creates its event loop.
RunEventLoop(t) ==
    /\ tpc[t] = "born"
    /\ loop' = t
    /\ tpc' = [tpc EXCEPT ![t] = "connecting"]
    /\ out' = NoSends
    /\ UNCHANGED <<running, websocket, thread, session_data, client_secret,
                   processing_start_time, ws_open, wd, scheduled, await_ws,
                   mpc, stop_log, now, marker_src, capture_vars, store_vars>>

\* The end of _websocket_handler and of _run_event_loop on thread t: the
\* connection is closed, the watchdog cancelled, self._websocket reset,
\* the capture stopped and the event loop closed.
Teardown(t) ==
    /\ websocket' = NoThread
    /\ ACStopCall
    /\ ws_open' = [ws_open EXCEPT ![t] = FALSE]
    /\ wd' = [wd EXCEPT ![t] = IF @ = "none" THEN "none" ELSE "done"]
    /\ scheduled' = [scheduled EXCEPT ![t] = EmptyQueue]
    /\ await_ws' = [await_ws EXCEPT ![t] = NoThread]
    /\ tpc' = [tpc EXCEPT ![t] = "exited"]

\* websockets.connect succeeds: self._websocket = websocket.
ConnectOk(t) ==
    /\ tpc[t] = "connecting"
    /\ ws_open' = [ws_open EXCEPT ![t] = TRUE]
    /\ websocket' = t
    /\ tpc' = [tpc EXCEPT ![t] = "connected"]
    /\ out' = NoSends
    /\ UNCHANGED <<wd, scheduled, await_ws, cap_ctl>>

\* websockets.connect raises: the handler ends.
ConnectFailed(t) ==
    /\ tpc[t] = "connecting"
    /\ Teardown(t)
    /\ out' = NoSends

Connect(t) ==
    /\ ConnectOk(t) \/ ConnectFailed(t)
    /\ UNCHANGED <<running, loop, thread, session_data, client_secret,
                   processing_start_time, mpc, stop_log, now, marker_src,
                   cap_data, store_vars>>

\* _initialize_transcription_session: nothing is sent without session data;
\* otherwise transcription_session.update is sent on self._websocket, and a
\* send that raises ends the handler.
SessionInit(t) ==
    /\ tpc[t] = "connected"
    /\ IF ~Truthy(session_data)
       THEN /\ tpc' = [tpc EXCEPT ![t] = "ready"]
            /\ out' = NoSends
            /\ UNCHANGED <<websocket, ws_open, wd, scheduled, await_ws, cap_ctl>>
       ELSE \/ /\ websocket # NoThread
               /\ ws_open[websocket]
               /\ tpc' = [tpc EXCEPT ![t] = "ready"]
               /\ out' = <<[type |-> "update", result |-> "sent",
                            ws |-> websocket]>>
               /\ UNCHANGED <<websocket, ws_open, wd, scheduled, await_ws,
                              cap_ctl>>
            \/ /\ Teardown(t)
               /\ out' = IF websocket = NoThread
                         THEN NoSends
                         ELSE <<[type |-> "update", result |-> "failed",
                                 ws |-> websocket]>>
    /\ UNCHANGED <<running, loop, thread, session_data, client_secret,
                   processing_start_time, mpc, stop_log, now, marker_src,
                   cap_data, store_vars>>

\* _websocket_handler after the session update: the capture is started and
\* the watchdog task created; the receive loop begins.
StartStreaming(t) ==
    /\ tpc[t] = "ready"
    /\ ACStartCall
    /\ wd' = [wd EXCEPT ![t] = "alive"]
    /\ tpc' = [tpc EXCEPT ![t] = "streaming"]
    /\ out' = NoSends
    /\ UNCHANGED <<running, websocket, loop, thread, session_data,
                   client_secret, processing_start_time, ws_open, scheduled,
                   await_ws, mpc, stop_log, now, marker_src, cap_data,
                   store_vars>>

\* A slip of the handler's dispatch: delta text is treated as final text.
IsFinalTranscript_WithDelta(ev) == ev.type \in {"completed", "delta"}

\* _handle_message: the branch that stores a transcript.
IsFinalTranscript(ev) == ev.type = "completed"

\* A slip of the receive loop: the next message is handled while the commit
\* send of the previous one is still in flight.
HandlerBusy_Never(t) == FALSE

\* The receive loop awaits _handle_message: no message is handled on thread
\* t while the handler's commit send is in flight.
HandlerBusy(t) == tpc[t] = "in_commit"

\* The callback calls of one _update_transcript(new_text).
CallbackCalls_Twice(new_text) ==
    IF has_callback THEN <<new_text, new_text>> ELSE << >>

\* The callback calls of one _update_transcript(new_text): self._callback,
\* when set, is called once with the new text.
CallbackCalls(new_text) == IF has_callback THEN <<new_text>> ELSE << >>

\* _update_transcript(new_text): empty or blank text is ignored; otherwise
\* the chunk is appended with its timestamp, the full transcript grows and
\* the callback is called.
UpdateTranscript(new_text) ==
    IF new_text = << >> \/ IsSpace(new_text)
    THEN UNCHANGED <<chunks, full_transcript, all_appended, callback_log,
                     appends_left>>
    ELSE /\ appends_left > 0
         /\ appends_left' = appends_left - 1
         /\ chunks' = RingAppend(chunks, <<new_text, now>>)
         /\ full_transcript' = JoinTranscript(full_transcript, new_text)
         /\ all_appended' = Append(all_appended, <<new_text, now>>)
         /\ callback_log' = callback_log \o CallbackCalls(new_text)

\* input_audio_buffer.speech_stopped: _send_message(commit) is awaited; with
\* no websocket it returns at once, otherwise the send is in flight.
OnSpeechStopped(t, ev) ==
    /\ ev.type = "speech_stopped"
    /\ IF websocket = NoThread
       THEN /\ out' = <<[type |-> "commit", result |-> "skipped", ws |-> NoThread]>>
            /\ UNCHANGED <<tpc, await_ws>>
       ELSE /\ tpc' = [tpc EXCEPT ![t] = "in_commit"]
            /\ await_ws' = [await_ws EXCEPT ![t] = websocket]
            /\ out' = NoSends
    /\ UNCHANGED <<processing_start_time, marker_src, store_vars>>

\* input_audio_buffer.committed: the processing-started marker is set.
OnCommitted(t, ev) ==
    /\ ev.type = "committed"
    /\ processing_start_time' = now
    /\ marker_src' = "committed"
    /\ out' = NoSends
    /\ UNCHANGED <<tpc, await_ws, store_vars>>

\* A transcript-bearing event: the stripped transcript, when not empty, goes
\* to _update_transcript, whose callback may raise (the handler swallows it
\* and skips the rest); then the marker is cleared.
OnCompleted(t, ev) ==
    /\ IsFinalTranscript(ev)
    /\ LET transcript == Strip(ev.transcript) IN
        /\ IF transcript # << >>
           THEN UpdateTranscript(transcript)
           ELSE UNCHANGED <<chunks, full_transcript, all_appended,
                            callback_log, appends_left>>
        /\ \E raised \in {FALSE, has_callback /\ transcript # << >>} :
             /\ processing_start_time' =
                  IF raised THEN processing_start_time ELSE NoTime
             /\ out' = NoSends
    /\ marker_src' = IF ev.type = "completed" THEN "completed" ELSE marker_src
    /\ UNCHANGED <<tpc, await_ws, has_callback, conn_pool, fn_args,
                   fn_result, configs, counters, callbacks, matches,
                   last_call>>

\* conversation.item.input_audio_transcription.delta: printed, not stored.
OnDelta(t, ev) ==
    /\ ev.type = "delta"
    /\ ~IsFinalTranscript(ev)
    /\ out' = NoSends
    /\ UNCHANGED <<tpc, await_ws, processing_start_time, marker_src,
                   store_vars>>

\* A failed event that ends the receive loop of the handler.
OnFailed_EndsReceiveLoop(t, ev) ==
    /\ ev.type = "failed"
    /\ processing_start_time' = NoTime
    /\ marker_src' = "failed"
    /\ tpc' = [tpc EXCEPT ![t] = "exited"]
    /\ out' = NoSends
    /\ UNCHANGED <<await_ws, store_vars>>

\* conversation.item.input_audio_transcription.failed: the marker is cleared.
OnFailed(t, ev) ==
    /\ ev.type = "failed"
    /\ processing_start_time' = NoTime
    /\ marker_src' = "failed"
    /\ out' = NoSends
    /\ UNCHANGED <<tpc, await_ws, store_vars>>

\* Any other event type, or a message json.loads rejects: nothing happens.
OnOther(t, ev) ==
    /\ ev.type \in {"other", "malformed"}
    /\ out' = NoSends
    /\ UNCHANGED <<tpc, await_ws, processing_start_time, marker_src,
                   store_vars>>

\* _handle_message(message), run by the receive loop of thread t.
HandleMessage(t, ev) ==
    /\ tpc[t] \in {"streaming", "in_commit"}
    /\ ~HandlerBusy(t)
    /\ \/ OnSpeechStopped(t, ev)
       \/ OnCommitted(t, ev)
       \/ OnCompleted(t, ev)
       \/ OnDelta(t, ev)
       \/ OnFailed(t, ev)
       \/ OnOther(t, ev)
    /\ UNCHANGED <<running, websocket, loop, thread, session_data,
                   client_secret, ws_open, wd, scheduled, mpc, stop_log, now,
                   capture_vars>>

\* The commit send awaited by the speech_stopped handler completes: the
\* message is on the wire, or the send raised and the error was suppressed.
CommitSend(t) ==
    /\ tpc[t] = "in_commit"
    /\ \E r \in SendResults(await_ws[t]) :
         out' = <<[type |-> "commit", result |-> r, ws |-> await_ws[t]]>>
    /\ tpc' = [tpc EXCEPT ![t] = "streaming"]
    /\ await_ws' = [await_ws EXCEPT ![t] = NoThread]
    /\ UNCHANGED <<running, websocket, loop, thread, session_data,
                   client_secret, processing_start_time, ws_open, wd,
                   scheduled, mpc, stop_log, now, marker_src, capture_vars,
                   store_vars>>

\* _check_processing_timeout: the marker is set and older than the timeout.
StallDetected ==
    /\ processing_start_time # NoTime
    /\ now - processing_start_time > PROCESSING_TIMEOUT

\* A slip of the watchdog's recovery: the connection is closed as well, so
\* that the receive loop ends.
StallRecovery_Restart(t) ==
    /\ processing_start_time' = NoTime
    /\ marker_src' = "watchdog"
    /\ \E m \in SendMessage("clear") : out' = <<m>>
    /\ ws_open' = [ws_open EXCEPT ![t] = FALSE]
    /\ UNCHANGED wd

\* _check_processing_timeout on a stall: the marker is cleared and
\* _send_message(clear) awaited; the task goes on.
StallRecovery(t) ==
    /\ processing_start_time' = NoTime
    /\ marker_src' = "watchdog"
    /\ \E m \in SendMessage("clear") : out' = <<m>>
    /\ UNCHANGED <<wd, ws_open>>

\* One iteration of _check_processing_timeout: the task ends when the flag
\* is clear; on a stall it clears the marker and awaits _send_message(clear).
WatchdogTick(t) ==
    /\ wd[t] = "alive"
    /\ tpc[t] \in {"streaming", "in_commit"}
    /\ IF ~running
       THEN /\ wd' = [wd EXCEPT ![t] = "done"]
            /\ out' = NoSends
            /\ UNCHANGED <<ws_open, processing_start_time, marker_src>>
       ELSE IF StallDetected
            THEN StallRecovery(t)
            ELSE /\ out' = NoSends
                 /\ UNCHANGED <<wd, ws_open, processing_start_time, marker_src>>
    /\ UNCHANGED <<running, websocket, loop, thread, session_data,
                   client_secret, tpc, scheduled, await_ws, mpc, stop_log, now,
                   capture_vars, store_vars>>

\* The remote end closes the connection of thread t, or the network fails.
ConnClose(t) ==
    /\ tpc[t] \in {"connected", "ready", "streaming", "in_commit"}
    /\ ws_open[t]
    /\ ws_open' = [ws_open EXCEPT ![t] = FALSE]
    /\ out' = NoSends
    /\ UNCHANGED <<running, websocket, loop, thread, session_data,
                   client_secret, processing_start_time, tpc, wd, scheduled,
                   await_ws, mpc, stop_log, now, marker_src, capture_vars,
                   store_vars>>

\* The receive loop finds the connection closed: the handler ends.
ReceiveEnd(t) ==
    /\ tpc[t] = "streaming"
    /\ ~ws_open[t]
    /\ Teardown(t)
    /\ out' = NoSends
    /\ UNCHANGED <<running, loop, thread, session_data, client_secret,
                   processing_start_time, mpc, stop_log, now, marker_src,
                   cap_data, store_vars>>

\* The event loop of thread t runs the websocket.close() that stop() scheduled.
RunScheduledClose(t) ==
    /\ LoopOpen(t)
    /\ scheduled[t].close # NoThread
    /\ ws_open' = [ws_open EXCEPT ![scheduled[t].close] = FALSE]
    /\ scheduled' = [scheduled EXCEPT ![t].close = NoThread]
    /\ out' = NoSends
    /\ UNCHANGED <<running, websocket, loop, thread, session_data,
                   client_secret, processing_start_time, tpc, wd, await_ws,
                   mpc, stop_log, now, marker_src, capture_vars, store_vars>>

\* The event loop of thread t runs a _send_message(append) that
\* _process_audio_bytes scheduled.
RunScheduledAppend(t) ==
    /\ LoopOpen(t)
    /\ scheduled[t].appends > 0
    /\ scheduled' = [scheduled EXCEPT ![t].appends = @ - 1]
    /\ \E m \in SendMessage("append") :
         out' = <<m>>
    /\ UNCHANGED <<running, websocket, loop, thread, session_data,
                   client_secret, processing_start_time, tpc, ws_open, wd,
                   await_ws, mpc, stop_log, now, marker_src, capture_vars,
                   store_vars>>

\* A slip of the outbound send's guard: the running flag is not tested.
NotStreaming_WebsocketOnly == websocket = NoThread

\* _process_audio_bytes: the guard of its first statement.
NotStreaming == websocket = NoThread \/ ~running

\* _process_audio_bytes(audio_bytes), called by a capture thread: returns at
\* once when not streaming; otherwise schedules _send_message(append) on
\* self._loop unless the loop is unset or closed.
ProcessAudioBytes ==
    /\ IF ~NotStreaming /\ LoopOpen(loop)
       THEN /\ scheduled[loop].appends < MaxPending
            /\ scheduled' = [scheduled EXCEPT ![loop].appends = @ + 1]
       ELSE UNCHANGED scheduled
    /\ out' = NoSends
    /\ UNCHANGED <<running, websocket, loop, thread, session_data,
                   client_secret, processing_start_time, tpc, ws_open, wd,
                   await_ws, mpc, stop_log, now, marker_src, capture_vars,
                   store_vars>>

\* stop(), first statement: self._running = False.
TStopFlag ==
    /\ mpc = "idle"
    /\ running' = FALSE
    /\ mpc' = "stop_capture"
    /\ stop_log' = <<"flag">>
    /\ out' = NoSends
    /\ UNCHANGED <<websocket, loop, thread, session_data, client_secret,
                   processing_start_time, tpc, ws_open, wd, scheduled,
                   await_ws, now, marker_src, capture_vars, store_vars>>

\* A stop() that requests the close before it stops the capture.
TStopCapture_AfterClose ==
    /\ mpc = "stop_capture"
    /\ scheduled' =
         IF websocket # NoThread /\ LoopOpen(loop)
         THEN [scheduled EXCEPT ![loop].close = websocket]
         ELSE scheduled
    /\ ACStopCall
    /\ mpc' = "stop_close"
    /\ stop_log' = stop_log \o <<"close", "capture">>
    /\ out' = NoSends
    /\ UNCHANGED <<running, websocket, loop, thread, session_data,
                   client_secret, processing_start_time, tpc, ws_open, wd,
                   await_ws, now, marker_src, cap_data, store_vars>>

\* stop(), "Stop audio capture first": self._audio_capture.stop().
TStopCapture ==
    /\ mpc = "stop_capture"
    /\ ACStopCall
    /\ mpc' = "stop_close"
    /\ stop_log' = Append(stop_log, "capture")
    /\ out' = NoSends
    /\ UNCHANGED <<running, websocket, loop, thread, session_data,
                   client_secret, processing_start_time, tpc, ws_open, wd,
                   scheduled, await_ws, now, marker_src, cap_data,
                   store_vars>>

\* stop() after the capture stop: the close is scheduled on self._loop when
\* a websocket and an open loop exist; then a live thread is joined, and
\* without one the session is discarded at once and the call returns.
TStopClose ==
    /\ mpc = "stop_close"
    /\ scheduled' =
         IF websocket # NoThread /\ LoopOpen(loop)
         THEN [scheduled EXCEPT ![loop].close = websocket]
         ELSE scheduled
    /\ IF IsAlive(thread)
       THEN /\ mpc' = "joining"
            /\ stop_log' =
                 (IF websocket # NoThread /\ LoopOpen(loop)
                  THEN Append(stop_log, "close") ELSE stop_log)
                 \o <<"join">>
            /\ UNCHANGED <<session_data, client_secret, loop>>
       ELSE /\ session_data' = "None"
            /\ client_secret' = FALSE
            /\ loop' = NoThread
            /\ mpc' = "idle"
            /\ stop_log' = << >>
    /\ out' = NoSends
    /\ UNCHANGED <<running, websocket, thread, processing_start_time, tpc,
                   ws_open, wd, await_ws, now, marker_src, capture_vars,
                   store_vars>>

\* A join without a timeout: stop() goes on only once the thread has ended.
TStopEnd_JoinForever ==
    /\ mpc = "joining"
    /\ ~IsAlive(thread)
    /\ thread' = NoThread
    /\ session_data' = "None"
    /\ client_secret' = FALSE
    /\ loop' = NoThread
    /\ mpc' = "idle"
    /\ stop_log' = << >>
    /\ out' = NoSends
    /\ UNCHANGED <<running, websocket, processing_start_time, tpc, ws_open, wd,
                   scheduled, await_ws, now, marker_src,
                   capture_vars, store_vars>>

\* stop() from its join on: join(timeout=5) returns because the thread has
\* finished or because the timeout has expired; the session is discarded
\* and the call returns.
TStopEnd ==
    /\ mpc = "joining"
    /\ thread' = NoThread
    /\ session_data' = "None"
    /\ client_secret' = FALSE
    /\ loop' = NoThread
    /\ mpc' = "idle"
    /\ stop_log' = << >>
    /\ out' = NoSends
    /\ UNCHANGED <<running, websocket, processing_start_time, tpc, ws_open, wd,
                   scheduled, await_ws, now, marker_src,
                   capture_vars, store_vars>>

\* A capture thread finds the capture flag clear and ends.
CaptureExit(t) ==
    /\ LoopExit(t)
    /\ UNCHANGED <<trans_vars, store_vars>>

\* time.time() advances by ClockStep seconds.
Tick ==
    /\ now + ClockStep <= StartTime + ClockStep * MaxTicks
    /\ now' = now + ClockStep
    /\ out' = NoSends
    /\ UNCHANGED <<running, websocket, loop, thread, session_data,
                   client_secret, processing_start_time, tpc, ws_open, wd,
                   scheduled, await_ws, mpc, stop_log, marker_src,
                   capture_vars, store_vars>>

\* One step of connection thread t, with inbound events drawn from evs.
ConnThreadStep(t, evs) ==
    \/ RunEventLoop(t)
    \/ Connect(t)
    \/ SessionInit(t)
    \/ StartStreaming(t)
    \/ \E ev \in evs : HandleMessage(t, ev)
    \/ CommitSend(t)
    \/ WatchdogTick(t)
    \/ ConnClose(t)
    \/ ReceiveEnd(t)
    \/ RunScheduledClose(t)
    \/ RunScheduledAppend(t)

\* One step of the transcriber, its callers and its environment, the clock
\* apart.
TransStep(evs) ==
    \/ TStart
    \/ TStopFlag
    \/ TStopCapture
    \/ TStopClose
    \/ TStopEnd
    \/ \E t \in ConnThreads : ConnThreadStep(t, evs)
    \/ \E t \in CaptureThreads : CaptureExit(t)
    \/ ProcessAudioBytes

\* ------------------------------------------- functions on their own ---
\* No function is called on its own.
NoFunctionCall ==
    /\ fn_args = [fn |-> "none"]
    /\ fn_result = [done |-> FALSE, value |-> << >>]

\* ---------------------------------------------------- CounterManager ---
\* The counters a caller may add, the callbacks a config may carry ("None"
\* when it has none) and the rule a config carries.
CounterNames == {"a", "b"}
NoCallback == "None"
Callbacks == {"cb1", "cb2"}
Rules == {"it depends"}
CounterConfigs ==
    [name : CounterNames, rule : Rules, callback : Callbacks \cup {NoCallback}]

\* The empty dict, and d[k] = v.
EmptyDict == [k \in {} |-> 0]
Put(d, k, v) == [n \in DOMAIN d \cup {k} |-> IF n = k THEN v ELSE d[n]]

\* self.configs[config.name] = config: a key already in the dict keeps its
\* place in the iteration order.
PutConfig(cs, config) ==
    IF \E i \in 1..Len(cs) : cs[i].name = config.name
    THEN [i \in 1..Len(cs) |->
            IF cs[i].name = config.name THEN config ELSE cs[i]]
    ELSE Append(cs, config)

\* No process_text call has been made.
NoProcessText ==
    [evaluated |-> << >>, calls |-> << >>, raised |-> FALSE,
     incremented |-> EmptyDict]

\* CounterManager.__init__.
CounterManagerInit ==
    /\ configs = << >>
    /\ counters = EmptyDict
    /\ callbacks = EmptyDict
    /\ matches = EmptyDict
    /\ last_call = NoProcessText

\* Everything outside the CounterManager.
not_counter_vars ==
    <<capture_vars, trans_vars, full_transcript, chunks, has_callback,
      all_appended, callback_log, conn_pool, appends_left, fn_args,
      fn_result>>

\* add_counter(config).
AddCounter(config) ==
    /\ configs' = PutConfig(configs, config)
    /\ counters' = Put(counters, config.name, 0)
    /\ callbacks' = IF config.callback # NoCallback
                    THEN Put(callbacks, config.name, config.callback)
                    ELSE callbacks
    /\ matches' = Put(matches, config.name, 0)
    /\ UNCHANGED <<last_call, not_counter_vars>>

\* A process_text that counts every counter, matching or not.
Matched_Always(evaluation) == TRUE

\* evaluation.match.
Matched(evaluation) == evaluation = "match"

\* process_text(text). answers[name] is what self.evaluator.evaluate(text,
\* rule) does for the counter: it returns a match, returns no match, or
\* raises; raising holds the names whose callback raises when called. The
\* result is the call after the first k configs: the counters, the dict
\* incremented, the evaluations obtained, the callback calls made, and
\* whether an exception has ended the call.
process_text(answers, raising) ==
    LET RECURSIVE run(_)
        run(k) ==
            IF k = 0
            THEN [counters |-> counters, incremented |-> EmptyDict,
                  evaluated |-> << >>, calls |-> << >>, raised |-> FALSE]
            ELSE LET p == run(k - 1)
                     name == configs[k].name
                     evaluation == answers[name]
                     value == p.counters[name] + 1
                     q == [p EXCEPT
                            !.evaluated = Append(@, <<name, evaluation>>)]
                 IN  IF p.raised THEN p
                     ELSE IF evaluation = "raise"
                     THEN [p EXCEPT !.raised = TRUE]
                     ELSE IF ~Matched(evaluation) THEN q
                     ELSE [counters |-> [p.counters EXCEPT ![name] = value],
                           incremented |-> Put(p.incremented, name, value),
                           evaluated |-> q.evaluated,
                           calls |->
                             IF name \in DOMAIN callbacks
                             THEN Append(p.calls,
                                         <<callbacks[name], name, value>>)
                             ELSE p.calls,
                           raised |-> name \in DOMAIN callbacks
                                        /\ name \in raising]
    IN  run(Len(configs))

\* The matches among the evaluations obtained for name.
MatchesFor(evaluated, name) ==
    Cardinality({i \in 1..Len(evaluated) :
                   evaluated[i] = <<name, "match">>})

\* A caller invokes process_text(text).
ProcessText ==
    /\ \A n \in DOMAIN counters : counters[n] < MaxCount
    /\ \E answers \in [CounterNames -> {"match", "no match", "raise"}],
          raising \in SUBSET CounterNames :
         LET r == process_text(answers, raising)
         IN  /\ counters' = r.counters
             /\ matches' = [n \in DOMAIN matches |->
                              matches[n] + MatchesFor(r.evaluated, n)]
             /\ last_call' =
                  [evaluated |-> r.evaluated, calls |-> r.calls,
                   raised |-> r.raised,
                   incremented |-> IF r.raised THEN EmptyDict
                                   ELSE r.incremented]
    /\ UNCHANGED <<configs, callbacks, not_counter_vars>>

\* get_counter(name): 0 for a counter that does not exist.
get_counter(name) == IF name \in DOMAIN counters THEN counters[name] ELSE 0

\* get_all_counters().
get_all_counters == counters

\* reset_counter(name).
ResetCounter(name) ==
    /\ IF name \in DOMAIN counters
       THEN /\ counters' = [counters EXCEPT ![name] = 0]
            /\ matches' = [matches EXCEPT ![name] = 0]
       ELSE UNCHANGED <<counters, matches>>
    /\ UNCHANGED <<configs, callbacks, last_call, not_counter_vars>>

\* reset_all_counters().
ResetAllCounters ==
    /\ counters' = [n \in DOMAIN counters |-> 0]
    /\ matches' = [n \in DOMAIN matches |-> 0]
    /\ UNCHANGED <<configs, callbacks, last_call, not_counter_vars>>

\* A CounterManager on its own, with every call a caller can make.
CounterInit ==
    /\ CaptureInitWith(MaxF, FALSE, FALSE)
    /\ TransInitWith(FALSE, {}, 0)
    /\ NoFunctionCall
    /\ CounterManagerInit

CounterNext ==
    \/ \E name \in CounterNames : ResetCounter(name)
    \/ ResetAllCounters
    \/ \E config \in CounterConfigs : AddCounter(config)
    \/ ProcessText

SpecCounter == CounterInit /\ [][CounterNext]_vars

\* The arrays of at most n samples a caller may pass: recordings of either
\* stream, of silence and sound in every arrangement.
AudioArrays(n) ==
    UNION {{StreamSamples(src, amps) : amps \in [1..k -> {0, 1}]} :
             src \in {"mic", "sys"}, k \in 0..n}

\* The ratios a caller may pass, in tenths: none of a stream, the defaults
\* of mix_audio_streams, and the configured volume.
Ratios == {0, 5, 7, MIC_VOLUME}

\* The sample rates a caller may pass, in Hz, and the fade durations, in
\* milliseconds.
SampleRates == {100, 200, 300, SAMPLE_RATE}
FadeDurations == {FINAL_FADE_MS, FADE_MS}

\* The state before a call of the function named in args.
FunctionInit(args) ==
    /\ CaptureInitWith(MaxF, FALSE, FALSE)
    /\ TransInitWith(FALSE, {}, 0)
    /\ fn_args = args
    /\ fn_result = [done |-> FALSE, value |-> << >>]
    /\ CounterManagerInit

\* The call returns value.
Return(value) ==
    /\ ~fn_result.done
    /\ fn_result' = [done |-> TRUE, value |-> value]
    /\ UNCHANGED <<capture_vars, trans_vars, full_transcript, chunks,
                   has_callback, all_appended, callback_log, conn_pool,
                   appends_left, fn_args, configs, counters, callbacks,
                   matches, last_call>>

\* mix_audio_streams called on any two arrays with any two ratios.
MixInit ==
    \E a \in AudioArrays(MaxMixLen), b \in AudioArrays(MaxMixLen),
       r1 \in Ratios, r2 \in Ratios :
        FunctionInit([fn |-> "mix_audio_streams", mic_audio |-> a,
                      system_audio |-> b, mic_ratio |-> r1,
                      system_ratio |-> r2])

CallMix ==
    /\ fn_args.fn = "mix_audio_streams"
    /\ Return(mix_audio_streams(fn_args.mic_audio, fn_args.system_audio,
                                fn_args.mic_ratio, fn_args.system_ratio))

SpecMix == MixInit /\ [][CallMix]_vars

\* apply_crossfade called on any array at any sample rate and fade duration.
CrossfadeInit ==
    \E a \in AudioArrays(MaxFadeLen), rate \in SampleRates,
       ms \in FadeDurations :
        FunctionInit([fn |-> "apply_crossfade", audio |-> a,
                      sample_rate |-> rate, fade_duration_ms |-> ms])

CallCrossfade ==
    /\ fn_args.fn = "apply_crossfade"
    /\ Return(apply_crossfade(fn_args.audio, fn_args.sample_rate,
                              fn_args.fade_duration_ms))

SpecCrossfade == CrossfadeInit /\ [][CallCrossfade]_vars

\* ------------------------------------------------------ specifications ---
\* AudioCapture on its own, for every frame size, with or without a
\* transcriber attached.
CaptureInit ==
    /\ \E F \in 1..MaxF, ht \in BOOLEAN : CaptureInitWith(F, ht, TRUE)
    /\ TransInitWith(FALSE, {}, 0)
    /\ NoFunctionCall
    /\ CounterManagerInit

SpecCapture == CaptureInit /\ [][CaptureNext]_vars

\* AudioCapture with each cycle's recordings, fades and mix in detail, with
\* or without a loopback device, at the largest frame size.
CycleInit ==
    /\ \E sm \in BOOLEAN : CaptureInitWith(MaxF, TRUE, sm)
    /\ TransInitWith(FALSE, {}, 0)
    /\ NoFunctionCall
    /\ CounterManagerInit

\* One capture loop at a time: started, never stopped.
CycleNext ==
    \/ ACStart
    \/ \E t \in CaptureThreads :
         \/ LoopTop(t)
         \/ RecordStreams(t)
         \/ RecordHangs(t)
         \/ MixChunk(t)
         \/ SendAcquire(t)
         \/ SliceAndForward(t)
         \/ SendRelease(t)

SpecCycle == CycleInit /\ [][CycleNext]_vars

\* The transcriber as the application constructs it: its AudioCapture has
\* the transcriber attached, and a callback has been passed.
Init ==
    /\ CaptureInitWith(MaxF, TRUE, TRUE)
    /\ TransInitWith(TRUE, {1}, MaxAppends)
    /\ NoFunctionCall
    /\ CounterManagerInit

\* Every inbound message the model draws.
AllEvents == Events(BlankTexts \cup SpokenTexts)

\* One connection of the protocol client with every inbound event: start(),
\* the connection thread, stop(), the audio send and the clock.
Next == TransStep(AllEvents) \/ Tick

Spec == Init /\ [][Next]_vars

\* As Init, with room for more chunks than the ring holds.
StoreInit ==
    /\ CaptureInitWith(MaxF, TRUE, TRUE)
    /\ \E cb \in BOOLEAN : TransInitWith(cb, {1}, StoreAppends)
    /\ NoFunctionCall
    /\ CounterManagerInit

\* One connection that stays up: start(), the connection thread up to its
\* receive loop, every inbound event and the clock.
StoreStep ==
    \/ TStart
    \/ RunEventLoop(1)
    \/ Connect(1)
    \/ SessionInit(1)
    \/ StartStreaming(1)
    \/ \E ev \in AllEvents : HandleMessage(1, ev)
    \/ CommitSend(1)
    \/ Tick

SpecStore == StoreInit /\ [][StoreStep]_vars

\* The transcriber of the module's last line, constructed without a callback.
LifecycleInit ==
    /\ CaptureInitWith(MaxF, TRUE, TRUE)
    /\ TransInitWith(FALSE, ConnThreads, 0)
    /\ NoFunctionCall
    /\ CounterManagerInit

\* The life cycle of the protocol client over any number of start() and
\* stop() calls, untimed: threads, event loops, connections and the capture,
\* without the traffic on an open connection.
LifecycleNext ==
    \/ TStart
    \/ TStopFlag
    \/ TStopCapture
    \/ TStopClose
    \/ TStopEnd
    \/ \E t \in ConnThreads :
         \/ RunEventLoop(t)
         \/ Connect(t)
         \/ SessionInit(t)
         \/ StartStreaming(t)
         \/ ConnClose(t)
         \/ ReceiveEnd(t)
         \/ RunScheduledClose(t)
    \/ \E t \in CaptureThreads : CaptureExit(t)

SpecLifecycle == LifecycleInit /\ [][LifecycleNext]_vars

\* ------------------------------------------------- dispatcher claims ---

\* C1: every frame the dispatcher has forwarded to the transcriber is exactly
\* chunk_size bytes long, for every frame size 1..MaxF and every sequence of
\* chunk lengths; no shorter frame is ever forwarded.
C1_FramesAreExactlyF ==
    \A i \in 1..Len(forwarded) : Len(forwarded[i]) = chunk_size

\* C1 witness: with a frame size above one, two frames have been forwarded
\* and a partial remainder is waiting in the buffer.
C1_Witness ==
    /\ chunk_size >= 2
    /\ Len(forwarded) >= 2
    /\ mixed_buffer_lock = NoThread
    /\ Len(mixed_buffer) >= 1

C3_ClearsOnlyUnansweredCommit ==
    [][\A t \in ConnThreads :
         (WatchdogTick(t) /\ (processing_start_time' # processing_start_time
                               \/ out' # NoSends))
           => /\ processing_start_time # NoTime
              /\ marker_src = "committed"
              /\ now - processing_start_time >= PROCESSING_TIMEOUT]_vars

\* C4: a watchdog iteration that finds a stall clears the marker and
\* issues exactly one clear request, on the current websocket; it leaves the
\* connection, the threads, the session and the running flag as they are.
\* Nothing reconnects: a connection thread is started only by a start() call
\* made while the flag is clear, a session is obtained only by such a call,
\* and a websocket is opened only by a thread that has not connected before.
C4_StallRecoveryOnlyClears ==
    [][\A t \in ConnThreads :
         /\ (WatchdogTick(t) /\ running /\ processing_start_time # NoTime
                /\ now - processing_start_time > PROCESSING_TIMEOUT)
              => /\ processing_start_time' = NoTime
                 /\ Len(out') = 1
                 /\ out'[1].type = "clear"
                 /\ out'[1].ws = websocket
                 /\ UNCHANGED <<websocket, ws_open, tpc, wd, running, thread,
                                loop, session_data, client_secret, scheduled>>
         /\ (tpc[t] = "unborn" /\ tpc'[t] # "unborn")
              => /\ mpc = "idle" /\ ~running /\ running'
                 /\ thread' = t
         /\ (session_data # "ok" /\ session_data' = "ok")
              => mpc = "idle" /\ ~running
         /\ (~ws_open[t] /\ ws_open'[t]) => tpc[t] = "connecting"]_vars

\* C4 witness: the watchdog has just fired on a live connection: the marker
\* is clear, one clear request went out on the open websocket, and the
\* receive loop is still running.
C4_Witness ==
    /\ marker_src = "watchdog"
    /\ processing_start_time = NoTime
    /\ out = <<[type |-> "clear", result |-> "sent", ws |-> 1]>>
    /\ running
    /\ websocket = 1
    /\ ws_open[1]
    /\ tpc[1] = "streaming"

\* ----------------------------------------------------- handler claims ---
SpeechStopped == [type |-> "speech_stopped", transcript |-> << >>]

\* C5 (as stated): the handler of a speech_stopped event puts exactly one
\* commit message on the connection, and no handler starts on the thread
\* until it has.
C5_ExactlyOneCommitSent ==
    [][\A t \in ConnThreads :
         /\ HandleMessage(t, SpeechStopped) => tpc'[t] = "in_commit"
         /\ (tpc[t] = "in_commit" /\ tpc'[t] # "in_commit")
              => out' = <<[type |-> "commit", result |-> "sent", ws |-> t]>>
         /\ tpc[t] = "in_commit"
              => \A ev \in AllEvents : ~HandleMessage(t, ev)]_vars

\* C5 (amended): the handler of a speech_stopped event awaits exactly one
\* send of a commit message on the connection, and no handler starts on the
\* thread until that send has returned; the message is on the wire unless
\* the send raised, which it does whenever the connection is closed.
C5_ExactlyOneCommitIssued ==
    [][\A t \in ConnThreads :
         /\ HandleMessage(t, SpeechStopped) => tpc'[t] = "in_commit"
         /\ (tpc[t] = "in_commit" /\ tpc'[t] # "in_commit")
              => /\ Len(out') = 1
                 /\ out'[1].type = "commit"
                 /\ out'[1].ws = t
                 /\ out'[1].result \in {"sent", "failed"}
                 /\ ~ws_open[t] => out'[1].result = "failed"
                 /\ tpc'[t] = "streaming"
         /\ tpc[t] = "in_commit"
              => \A ev \in AllEvents : ~HandleMessage(t, ev)]_vars

\* C5 witness: the commit send of a speech_stopped handler has just raised
\* on an open connection, and the receive loop is ready for the next event.
C5_Witness ==
    /\ out = <<[type |-> "commit", result |-> "failed", ws |-> 1]>>
    /\ tpc[1] = "streaming"
    /\ ws_open[1]
    /\ running

\* ------------------------------------------------------- store claims ---
RECURSIVE JoinTexts(_)

\* The texts of a sequence of chunks, joined by single spaces.
JoinTexts(cs) ==
    IF cs = << >> THEN << >>
    ELSE IF Len(cs) = 1 THEN cs[1][1]
    ELSE cs[1][1] \o <<" ">> \o JoinTexts(Tail(cs))

\* s ends with suffix.
EndsWith(s, suffix) ==
    /\ Len(suffix) <= Len(s)
    /\ SubSeq(s, Len(s) - Len(suffix) + 1, Len(s)) = suffix

\* The last n elements of s, or all of s when it has fewer.
LastN(s, n) == SubSeq(s, Len(s) - Min(n, Len(s)) + 1, Len(s))

\* What get_recent_chunks(60) returns.
Recent == get_recent_chunks(RECENT_SECONDS)

\* C6: when a completed event whose stripped transcript t is not empty has
\* been handled, get_full_transcript() ends with t and get_recent_chunks(60)
\* contains the chunk <<t, time of handling>>, whatever was handled before.
C6_CompletedTextIsStored ==
    [][\A t \in ConnThreads : \A ev \in AllEvents :
         (HandleMessage(t, ev) /\ ev.type = "completed"
            /\ Strip(ev.transcript) # << >>)
           => /\ EndsWith(get_full_transcript', Strip(ev.transcript))
              /\ \E i \in 1..Len(Recent') :
                   Recent'[i] = <<Strip(ev.transcript), now>>]_vars

\* C6 witness: a trimmed transcript was stored after an earlier, different
\* one that has since left the recent window.
C6_Witness ==
    /\ Len(chunks) = 2
    /\ chunks[1][1] = <<"a">>
    /\ chunks[2] = <<<<"b">>, now>>
    /\ Len(Recent) = 1
    /\ EndsWith(get_full_transcript, <<"b">>)

\* C7: the ring never holds more than MAX_CHUNKS chunks, and it holds the
\* most recently appended ones in arrival order: an append to a full ring
\* drops exactly the oldest chunk.
C7_RingHoldsMostRecent ==
    /\ Len(get_chunks) <= MAX_CHUNKS
    /\ get_chunks = LastN(all_appended, MAX_CHUNKS)

\* C7 witness: more chunks have been appended than the ring holds, and the
\* ring is full.
C7_Witness ==
    /\ Len(all_appended) > MAX_CHUNKS
    /\ Len(chunks) = MAX_CHUNKS
    /\ all_appended[1] # all_appended[Len(all_appended)]

\* C8 (as stated): the full transcript is the concatenation of the chunks
\* still held in the ring.
C8_FullIsJoinOfRing == get_full_transcript = JoinTexts(get_chunks)

\* C8 (amended): the full transcript is the space-separated concatenation of
\* every chunk ever appended, in order, evicted ones included; it equals the
\* concatenation of the ring only until the first eviction.
C8_FullIsJoinOfAllAppended ==
    /\ get_full_transcript = JoinTexts(all_appended)
    /\ Len(all_appended) <= MAX_CHUNKS
         => get_full_transcript = JoinTexts(get_chunks)

\* C8 witness: after an eviction the full transcript is longer than the
\* concatenation of the ring.
C8_Witness ==
    /\ Len(all_appended) > MAX_CHUNKS
    /\ Len(get_full_transcript) > Len(JoinTexts(get_chunks))

\* C9: a step that changes the chunk ring or the full transcript is the
\* handling of a completed event with non-blank text; it is not the handling
\* of any other event (delta, failed, committed, speech_stopped, unknown,
\* completed with blank text), not a watchdog iteration and not an outbound
\* audio send.
C9_StoreChangesOnlyOnCompleted ==
    [][(chunks' # chunks \/ full_transcript' # full_transcript)
         => /\ \E t \in ConnThreads : \E ev \in AllEvents :
                 /\ ev.type = "completed"
                 /\ Strip(ev.transcript) # << >>
                 /\ HandleMessage(t, ev)
            /\ \A t \in ConnThreads : \A ev \in AllEvents :
                 ~(ev.type = "completed" /\ Strip(ev.transcript) # << >>)
                   => ~HandleMessage(t, ev)
            /\ \A t \in ConnThreads :
                 /\ ~WatchdogTick(t)
                 /\ ~RunScheduledAppend(t)
            /\ ~ProcessAudioBytes]_vars

\* C9 witness: one chunk is stored, and since then a commit was acknowledged
\* and the watchdog has fired, with the store as it was.
C9_Witness ==
    /\ Len(chunks) = 1
    /\ full_transcript = chunks[1][1]
    /\ chunks[1][2] < now
    /\ marker_src = "watchdog"
    /\ out # NoSends

\* -------------------------------------------------- audio send claims ---

\* C10: a call of _process_audio_bytes made while self._websocket is unset
\* or the running flag is clear schedules nothing and sends nothing.
C10_NoAppendUnlessStreaming ==
    [][(ProcessAudioBytes /\ (websocket = NoThread \/ ~running))
         => scheduled' = scheduled /\ out' = NoSends]_vars

\* C10 witness: stop() has cleared the flag while the websocket is still set
\* and its event loop still open, with nothing scheduled on it: an audio call
\* made here returns at its guard.
C10_Witness ==
    /\ ~running
    /\ websocket = 1
    /\ ws_open[1]
    /\ LoopOpen(loop)
    /\ scheduled[1].appends = 0
    /\ tpc[1] = "streaming"
    /\ \E c \in CaptureThreads : cpc[c] \notin {"unborn", "exited"}

\* C11: a start() call that runs the bootstrap (the flag is clear) and ends
\* without a credential goes no further: the running flag stays clear, no
\* connection thread is started, no websocket is opened and the capture is
\* not started.
C11_FailedBootstrapStartsNothing ==
    [][(TStart /\ ~running /\ ~client_secret')
         => /\ ~running'
            /\ UNCHANGED <<thread, tpc, loop, websocket, ws_open>>
            /\ UNCHANGED <<capture_running, capture_thread, cpc>>]_vars

\* C11 witness: a bootstrap has answered without a credential, and neither
\* a thread nor a websocket nor a capture exists.
C11_Witness ==
    /\ session_data = "nosecret"
    /\ ~client_secret
    /\ ~running
    /\ thread = NoThread
    /\ websocket = NoThread
    /\ ~capture_running

\* C12: a start that did not reach Streaming can be retried: once the
\* connection thread of a start has ended and no stop() is under way, the
\* running flag is clear, so that the next start() runs a bootstrap and
\* starts a thread instead of returning at its guard.
C12_FailedStartIsRetryable ==
    (mpc = "idle" /\ thread # NoThread /\ tpc[thread] = "exited") => ~running

\* ---------------------------------------------------- shutdown claims ---

\* The step stop() can take next, wherever the call stands.
StopStep == TStopFlag \/ TStopCapture \/ TStopClose \/ TStopEnd

\* C13: stop() always completes: whatever the state of the connection
\* thread, the call can be made and each of its steps can be taken without
\* waiting for the thread; and when it returns the running flag is clear and
\* the credential and the session descriptor are discarded.
C13_StopAlwaysCompletes ==
    /\ [](ENABLED StopStep)
    /\ [][(mpc # "idle" /\ mpc' = "idle")
            => /\ ~running'
               /\ session_data' = "None"
               /\ ~client_secret']_vars

\* C13 witness: stop() has returned while the connection thread it joined
\* is still streaming: the join gave up, and the session is discarded.
C13_Witness ==
    /\ mpc = "idle"
    /\ ~running
    /\ session_data = "None"
    /\ ~client_secret
    /\ thread = NoThread
    /\ tpc[1] = "streaming"

\* s is t with some of its elements left out.
RECURSIVE IsSubseq(_, _)
IsSubseq(s, t) ==
    IF s = << >> THEN TRUE
    ELSE IF t = << >> THEN FALSE
    ELSE IF Head(s) = Head(t) THEN IsSubseq(Tail(s), Tail(t))
    ELSE IsSubseq(s, Tail(t))

\* The steps a stop() call has taken follow the given order (a step the
\* call has no reason to take is left out), and the credential and the
\* session descriptor are discarded by the step that ends the call, and by
\* no earlier one.
StopStepsFollow(order) ==
    /\ (stop_log' # stop_log /\ stop_log' # << >>)
         => IsSubseq(stop_log', order)
    /\ (stop_log # << >> /\ stop_log' = << >>)
         => session_data' = "None" /\ ~client_secret'
    /\ ((client_secret /\ ~client_secret') \/
        (session_data # "None" /\ session_data' = "None"))
         => stop_log' = << >>

\* C14 as stated: stop() sets the stop flag, requests the connection close,
\* stops the capture loop, joins the connection thread and then discards
\* the credential.
C14_CloseBeforeCaptureStop ==
    [][StopStepsFollow(<<"flag", "close", "capture", "join">>)]_vars

\* C14, amended: stop() sets the stop flag, stops the capture loop, requests
\* the connection close, joins the connection thread and then discards the
\* credential.
C14_CaptureStopBeforeClose ==
    [][StopStepsFollow(<<"flag", "capture", "close", "join">>)]_vars

\* C14 witness: a stop() call on a streaming connection has taken every
\* step but the last and waits in its join.
C14_Witness ==
    /\ mpc = "joining"
    /\ stop_log = <<"flag", "capture", "close", "join">>
    /\ ~running
    /\ ~capture_running
    /\ client_secret

\* C15: once stop() has returned, every connection is closed in the end and
\* the capture is stopped in the end: a connection that is still open in
\* its receive loop has a close request pending on its event loop, which
\* is the one thing in the program that ends that loop.
C15_StopLeavesNothingOpen ==
    (mpc = "idle" /\ ~running)
      => \A t \in ConnThreads :
           (tpc[t] = "streaming" /\ ws_open[t])
             => scheduled[t].close # NoThread

\* ---------------------------------------------------- handshake claims ---

\* C16: on every connection the handler goes on from the session
\* configuration to starting the capture and the watchdog only when the
\* transcription_session.update message has just been sent on that
\* connection; a failed send ends the attempt with the capture not started.
C16_UpdateSentBeforeCaptureStarts ==
    [][\A t \in ConnThreads :
         (tpc[t] = "connected" /\ tpc'[t] # "connected")
           => \/ /\ tpc'[t] = "ready"
                 /\ out' = <<[type |-> "update", result |-> "sent",
                              ws |-> t]>>
              \/ /\ tpc'[t] = "exited"
                 /\ ~capture_running']_vars

\* ------------------------------------------------- concurrency claims ---

\* C17: across any sequence of start() and stop() calls at most one
\* connection thread is alive at any time.
C17_AtMostOneConnectionAlive ==
    Cardinality({t \in ConnThreads : IsAlive(t)}) <= 1

\* C18: across any sequence of AudioCapture start() and stop() calls at most
\* one capture loop is inside a record-and-mix cycle or its hand-over to the
\* dispatcher at any time.
C18_CaptureCyclesNeverOverlap ==
    Cardinality({t \in CaptureThreads :
                   cpc[t] \in {"cycle", "send", "locked"}}) <= 1

\* ------------------------------------------------ capture cycle claims ---

\* The bytes are those of the recording data after fades: twice as many as
\* the recording has samples, each belonging either to the recorded sample
\* at its place or to a sample a fade has brought to zero.
ChunkIsFrom(bytes, data) ==
    /\ Len(bytes) = 2 * Len(data)
    /\ \A i \in 1..Len(bytes) :
         \/ bytes[i] = ZeroSample
         \/ /\ bytes[i].mic = data[(i + 1) \div 2].mic
            /\ bytes[i].sys = data[(i + 1) \div 2].sys

\* C19: without a loopback device the system recording fails in every
\* cycle; a cycle in which exactly one recording succeeded hands the
\* dispatcher a chunk made from that recording alone; a cycle in which both
\* failed hands it nothing, and the shared buffer stays as it is.
C19_OneStreamIsEnough ==
    [][\A t \in CaptureThreads :
         /\ (cpc[t] = "cycle" /\ cpc'[t] = "recorded" /\ ~system_mic)
              => ~rec'[t].sys.ok
         /\ (cpc[t] = "recorded" /\ cpc'[t] # "recorded")
              => /\ (rec[t].mic.ok /\ ~rec[t].sys.ok)
                      => /\ cpc'[t] = "send"
                         /\ ChunkIsFrom(mixed_bytes'[t], rec[t].mic.data)
                 /\ (~rec[t].mic.ok /\ rec[t].sys.ok)
                      => /\ cpc'[t] = "send"
                         /\ ChunkIsFrom(mixed_bytes'[t], rec[t].sys.data)
                 /\ (~rec[t].mic.ok /\ ~rec[t].sys.ok)
                      => /\ cpc'[t] = "top"
                         /\ UNCHANGED <<mixed_bytes, mixed_buffer,
                                        forwarded>>]_vars

\* C19 witness: without a loopback device a cycle has handed the dispatcher
\* a chunk that holds microphone sound, and only that.
C19_Witness ==
    /\ ~system_mic
    /\ cpc[1] = "send"
    /\ \E i \in 1..Len(mixed_bytes[1]) : mixed_bytes[1][i].mic = 1
    /\ \A i \in 1..Len(mixed_bytes[1]) : mixed_bytes[1][i].sys = 0

\* Every sample of the recording is 0.0.
IsSilent(r) == r.ok /\ \A i \in 1..Len(r.data) : r.data[i] = ZeroSample

\* C20: a cycle in which both streams were recorded and both are silent
\* hands the dispatcher no bytes, and a chunk of nothing but silence makes
\* the dispatcher release no frame.
C20_SilentCycleSendsNothing ==
    [][\A t \in CaptureThreads :
         /\ (cpc[t] = "recorded" /\ cpc'[t] # "recorded"
                /\ IsSilent(rec[t].mic) /\ IsSilent(rec[t].sys))
              => /\ cpc'[t] = "top"
                 /\ UNCHANGED <<mixed_bytes, mixed_buffer, forwarded>>
         /\ (cpc[t] = "locked" /\ mixed_bytes[t] # << >>
                /\ \A i \in 1..Len(mixed_bytes[t]) :
                      mixed_bytes[t][i] = ZeroSample)
              => forwarded' = forwarded]_vars

\* ------------------------------------------------------ callback claims ---

\* C22: the callback is called once for each finalized chunk, with the
\* chunk's text, in the order the completed events arrive: the calls made
\* so far are the texts of the chunks stored so far; a call is made only
\* while a completed event with a non-blank transcript is handled, and
\* handling such an event makes exactly one call.
C22_CallbackOncePerChunk ==
    /\ [](callback_log =
            IF has_callback
            THEN [i \in 1..Len(all_appended) |-> all_appended[i][1]]
            ELSE << >>)
    /\ [][/\ (callback_log' # callback_log)
              => \E ev \in AllEvents :
                   /\ HandleMessage(1, ev)
                   /\ ev.type = "completed"
                   /\ Strip(ev.transcript) # << >>
                   /\ callback_log' =
                        Append(callback_log, Strip(ev.transcript))
           /\ (has_callback /\ all_appended' # all_appended)
              => Len(callback_log') = Len(callback_log) + 1]_vars

\* C22 witness: two completed events with different texts have been handled
\* and the callback has been called with the first text, then the second.
C22_Witness ==
    /\ has_callback
    /\ Len(callback_log) = 2
    /\ callback_log[1] # callback_log[2]
    /\ Len(all_appended) = 2

\* --------------------------------------------------------- error claims ---

\* C23: handling a transcription-failed event clears the marker and leaves
\* everything else as it is: the websocket stays set and open, the running
\* flag and the capture keep their values, the watchdog lives on and the
\* receive loop is ready for the next inbound event.
C23_FailedEventKeepsConnection ==
    [][\A t \in ConnThreads :
         tpc[t] = "streaming"
           => \A ev \in {e \in AllEvents : e.type = "failed"} :
                HandleMessage(t, ev)
                  => /\ processing_start_time' = NoTime
                     /\ tpc'[t] = "streaming"
                     /\ UNCHANGED <<websocket, ws_open, running, wd,
                                    capture_running, capture_thread, cpc,
                                    scheduled>>]_vars

\* C23 witness: a failed event has cleared the marker on a connection that
\* is still open and streaming, with the flag set and the capture running.
C23_Witness ==
    /\ marker_src = "failed"
    /\ processing_start_time = NoTime
    /\ tpc[1] = "streaming"
    /\ websocket = 1
    /\ ws_open[1]
    /\ running
    /\ capture_running
    /\ wd[1] = "alive"

\* C24: a dispatch call that does not get the lock within its timeout drops
\* its chunk: the call returns to the top of the capture loop with the
\* shared buffer, the forwarded frames and the lock as they were; a call
\* that got the lock releases it when it returns, so that the lock is held
\* by a thread exactly while that thread is inside the locked section.
C24_LockTimeoutDropsChunk ==
    /\ [](\A t \in CaptureThreads :
            (mixed_buffer_lock = t) <=> (cpc[t] = "locked"))
    /\ [][\A t \in CaptureThreads :
            /\ (cpc[t] = "send" /\ cpc'[t] # "send"
                   /\ mixed_buffer_lock # NoThread)
                 => /\ cpc'[t] = "top"
                    /\ UNCHANGED <<mixed_buffer, forwarded,
                                   mixed_buffer_lock, capture_running>>
            /\ (cpc[t] = "locked" /\ cpc'[t] # "locked")
                 => /\ cpc'[t] = "top"
                    /\ mixed_buffer_lock' = NoThread]_vars

\* C24 witness: a chunk has been dropped while the other capture loop holds
\* the lock, and the loop that dropped it is back at the top of its cycle.
C24_Witness ==
    /\ dropped_any
    /\ \E t, u \in CaptureThreads :
         /\ t # u
         /\ cpc[t] = "top"
         /\ cpc[u] = "locked"
         /\ mixed_buffer_lock = u

\* C25: when forwarding a frame raises, the dispatcher goes on: the frame
\* has left the buffer and is not put back, the thread keeps the lock and
\* stays in the while loop, where it slices the next full frame or, with
\* none left, releases the lock and returns to the capture loop, whose
\* flag the error leaves alone.
C25_ForwardErrorIsSwallowed ==
    /\ [](\A t \in CaptureThreads :
            (cpc[t] = "locked" /\ failed_any)
              => /\ HasFullFrame(mixed_buffer) => ENABLED SliceAndForward(t)
                 /\ ~HasFullFrame(mixed_buffer) => ENABLED SendRelease(t))
    /\ [][\A t \in CaptureThreads :
            (cpc[t] = "locked" /\ ~failed_any /\ failed_any')
              => /\ cpc'[t] = "locked"
                 /\ mixed_buffer_lock' = t
                 /\ mixed_buffer' = Drop(mixed_buffer, chunk_size)
                 /\ forwarded' =
                      Append(forwarded, Take(mixed_buffer, chunk_size))
                 /\ UNCHANGED <<capture_running, capture_thread>>]_vars

\* C25 witness: a forwarding has raised and the thread, still holding the
\* lock, has a further full frame in the buffer to slice.
C25_Witness ==
    /\ failed_any
    /\ forwarded # << >>
    /\ \E t \in CaptureThreads :
         /\ cpc[t] = "locked"
         /\ mixed_buffer_lock = t
         /\ HasFullFrame(mixed_buffer)

\* C26: no failure inside a capture cycle ends the capture loop. Whatever a
\* cycle does (a failed recording, an exception, a dropped chunk, a frame
\* the transcriber rejects), the thread is afterwards still in the loop,
\* at the latest back at the while test; there, with the flag set, the test
\* starts another cycle and cannot end the loop. The loop ends only at the
\* while test, and only with the flag clear.
C26_FailedCycleKeepsLoopRunning ==
    /\ [](\A t \in CaptureThreads :
            (cpc[t] = "top" /\ capture_running /\ ncycles < MaxCycles)
              => ENABLED LoopEnter(t) /\ ~ENABLED LoopExit(t))
    /\ [][\A t \in CaptureThreads :
            /\ (cpc[t] \in {"cycle", "send", "locked"} /\ cpc'[t] # cpc[t])
                 => cpc'[t] \in {"joining", "send", "locked", "top"}
            /\ (cpc[t] = "cycle" /\ cpc'[t] = "top")
                 => UNCHANGED <<capture_running, capture_thread>>
            /\ (cpc[t] \notin {"unborn", "exited"} /\ cpc'[t] = "exited")
                 => cpc[t] = "top" /\ ~capture_running]_vars

\* C26 witness: the only capture thread has started its second cycle after
\* a first one that produced nothing, the flag still set.
C26_Witness ==
    /\ capture_running
    /\ ncycles = 2
    /\ produced = 0
    /\ \E t \in CaptureThreads :
         /\ cpc[t] = "cycle"
         /\ \A u \in CaptureThreads : u # t => cpc[u] = "unborn"

\* C27: a capture thread waiting for its two device recordings is never
\* blocked for good: when a recording does not return, a step of the thread
\* (a join that times out) still takes it on to mixing.
C27_RecordingJoinIsBounded ==
    \A t \in CaptureThreads :
        cpc[t] = "joining" => ENABLED (CycleNext /\ cpc'[t] # cpc[t])

\* C28: AudioCapture.stop() can be called in every state and returns with
\* the flag clear, without waiting on the thread's position; while the flag
\* is clear and no start() is called, no thread starts a cycle, and a thread
\* at the while test can only end its loop.
C28_StopEndsLoopAfterCycleInFlight ==
    /\ [](ENABLED ACStop)
    /\ [](\A t \in CaptureThreads :
            (cpc[t] = "top" /\ ~capture_running)
              => ENABLED LoopExit(t) /\ ~ENABLED LoopEnter(t))
    /\ [][/\ ACStop => ~capture_running' /\ UNCHANGED <<capture_thread, cpc>>
          /\ (~capture_running /\ ~ACStart)
               => /\ ncycles' = ncycles
                  /\ ~capture_running'
                  /\ \A t \in CaptureThreads :
                       cpc'[t] = "cycle" => cpc[t] = "cycle"]_vars

\* C28 witness: stop() was called while the only capture thread was in a
\* cycle that has sent a frame; the thread has finished it and ended.
C28_Witness ==
    /\ ~capture_running
    /\ ncycles = 1
    /\ forwarded # << >>
    /\ \E t \in CaptureThreads :
         /\ capture_thread = t
         /\ cpc[t] = "exited"
         /\ \A u \in CaptureThreads : u # t => cpc[u] = "unborn"

\* ------------------------------------------------- sample-level claims ---

\* C21: in a cycle where the microphone recording succeeded and the system
\* recording failed, the chunk handed on is the microphone recording after
\* these stages, in this order: crossfade, normalization, scaling by the
\* microphone ratio.
C21_MicOnlyIsFadedNormalizedScaled ==
    [][\A t \in CaptureThreads :
         (cpc[t] = "recorded" /\ cpc'[t] # "recorded"
            /\ rec[t].mic.ok /\ ~rec[t].sys.ok)
           => mixed_bytes'[t] =
                ToInt16Bytes(
                  Scale(normalize_audio_level(
                          apply_crossfade(rec[t].mic.data, SAMPLE_RATE,
                                          FADE_MS)),
                        MIC_VOLUME))]_vars


\* C29: mix_audio_streams gives the same array, sample for sample, when the
\* two streams are swapped together with their ratios, and the array is as
\* long as the longer stream.
C29_MixIsSymmetric ==
    (fn_args.fn = "mix_audio_streams" /\ fn_result.done)
      => /\ fn_result.value =
              mix_audio_streams(fn_args.system_audio, fn_args.mic_audio,
                                fn_args.system_ratio, fn_args.mic_ratio)
         /\ Len(fn_result.value) =
              IF Len(fn_args.mic_audio) >= Len(fn_args.system_audio)
              THEN Len(fn_args.mic_audio) ELSE Len(fn_args.system_audio)

\* C29 witness: two streams of different lengths were mixed with different
\* ratios, and the first sample of the mix holds sound of both.
C29_Witness ==
    /\ fn_args.fn = "mix_audio_streams"
    /\ fn_result.done
    /\ Len(fn_args.mic_audio) = 1
    /\ Len(fn_args.system_audio) = 2
    /\ fn_args.mic_ratio # fn_args.system_ratio
    /\ fn_result.value[1].mic = 1
    /\ fn_result.value[1].sys = 1
    /\ fn_result.value[2] # ZeroSample

\* The array result is audio faded over fade_samples samples at each end:
\* as long as audio, the first fade_samples samples multiplied by
\* linspace(0, 1, fade_samples), the last ones by linspace(1, 0,
\* fade_samples), every sample between them as it was.
CrossfadedOver(result, audio, fade_samples) ==
    /\ Len(result) = Len(audio)
    /\ \A i \in 1..Len(audio) :
         result[i] =
           IF i <= fade_samples
           THEN Times(audio[i], Linspace(0, 1, fade_samples, i)[1],
                      Linspace(0, 1, fade_samples, i)[2])
           ELSE IF i > Len(audio) - fade_samples
           THEN Times(audio[i],
                      Linspace(1, 0, fade_samples,
                               i - (Len(audio) - fade_samples))[1],
                      Linspace(1, 0, fade_samples,
                               i - (Len(audio) - fade_samples))[2])
           ELSE audio[i]

\* C30 as stated: apply_crossfade fades floor(ms * rate / 1000) samples at
\* each end, or a quarter of the buffer length exactly when the buffer is
\* shorter than twice that; it keeps the length, leaves the samples between
\* the two fades as they were, and returns an empty array as it is.
C30_ShrinksWhenShorter ==
    (fn_args.fn = "apply_crossfade" /\ fn_result.done)
      => LET n == Len(fn_args.audio)
             fadeSamples ==
                 (fn_args.fade_duration_ms * fn_args.sample_rate) \div 1000
         IN  /\ n = 0 => fn_result.value = fn_args.audio
             /\ CrossfadedOver(fn_result.value, fn_args.audio,
                               IF n < 2 * fadeSamples THEN n \div 4
                               ELSE fadeSamples)

\* C30 amended: the fade shrinks to a quarter of the buffer length exactly
\* when the buffer is not longer than twice floor(ms * rate / 1000).
C30_ShrinksWhenNotLonger ==
    (fn_args.fn = "apply_crossfade" /\ fn_result.done)
      => LET n == Len(fn_args.audio)
             fadeSamples ==
                 (fn_args.fade_duration_ms * fn_args.sample_rate) \div 1000
         IN  /\ n = 0 => fn_result.value = fn_args.audio
             /\ CrossfadedOver(fn_result.value, fn_args.audio,
                               IF n <= 2 * fadeSamples THEN n \div 4
                               ELSE fadeSamples)

\* C30 witness: a buffer of sound exactly twice the fade long was faded
\* over a quarter of its length, one sample: linspace(0, 1, 1) brings the
\* first sample to zero, the second is as it was, and linspace(1, 0, 1)
\* leaves the last one as it was.
C30_Witness ==
    /\ fn_args.fn = "apply_crossfade"
    /\ fn_result.done
    /\ Len(fn_args.audio) = 4
    /\ (fn_args.fade_duration_ms * fn_args.sample_rate) \div 1000 = 2
    /\ \A i \in 1..4 : fn_args.audio[i] # ZeroSample
    /\ fn_result.value[1] = ZeroSample
    /\ fn_result.value[2] = fn_args.audio[2]
    /\ fn_result.value[4] = fn_args.audio[4]

\* ---------------------------------------------------- closing claims ---

\* The frames one after the other.
Flatten(frames) ==
    LET RECURSIVE cat(_)
        cat(k) == IF k = 0 THEN << >> ELSE cat(k - 1) \o frames[k]
    IN  cat(Len(frames))

\* C32: the dispatcher conserves the byte stream. The buffer is always the
\* end of what was accepted under the lock; it changes only by an accepted
\* chunk appended at its end or by one frame sliced off its front; with a
\* transcriber attached, the frames handed on, in order, followed by the
\* buffer are the accepted chunks in order.
C32_DispatcherConservesBytes ==
    /\ [](/\ EndsWith(accepted, mixed_buffer)
          /\ has_transcriber => Flatten(forwarded) \o mixed_buffer = accepted)
    /\ [][mixed_buffer' # mixed_buffer
            => \/ /\ Len(accepted') > Len(accepted)
                  /\ Take(accepted', Len(accepted)) = accepted
                  /\ mixed_buffer' =
                       mixed_buffer \o Drop(accepted', Len(accepted))
               \/ /\ accepted' = accepted
                  /\ Len(mixed_buffer) >= chunk_size
                  /\ Take(mixed_buffer, chunk_size) \o mixed_buffer'
                       = mixed_buffer]_vars

\* C32 witness: chunks were accepted and one was dropped for the lock; two
\* frames have been handed on and a residue waits in the buffer.
C32_Witness ==
    /\ has_transcriber
    /\ dropped_any
    /\ Len(forwarded) >= 2
    /\ mixed_buffer # << >>
    /\ mixed_buffer_lock = NoThread
    /\ Len(accepted) < produced

\* C33: handling a completed event, whether or not the callback raises,
\* keeps the exception inside the handler: a transcript that is not blank
\* is stored, the receive loop stays where it was for the next event, the
\* connection is untouched, and the marker is cleared.
C33_CallbackRaiseIsContained ==
    [][\A t \in ConnThreads :
         tpc[t] = "streaming"
           => \A ev \in {e \in AllEvents : e.type = "completed"} :
                HandleMessage(t, ev)
                  => /\ tpc'[t] = "streaming"
                     /\ UNCHANGED <<websocket, ws_open, running, wd>>
                     /\ Strip(ev.transcript) # << >>
                          => all_appended' =
                               Append(all_appended,
                                      <<Strip(ev.transcript), now>>)
                     /\ processing_start_time' = NoTime]_vars

\* C34: the marker is set exactly when the most recent marker-affecting
\* event (committed, completed, failed, watchdog firing) was a committed
\* event; a committed event records the current time, over any time already
\* recorded; a completed or failed event leaves the marker clear.
C34_MarkerSetIffLastWasCommit ==
    /\ []((processing_start_time # NoTime) <=> (marker_src = "committed"))
    /\ [][\A t \in ConnThreads :
            tpc[t] = "streaming"
              => \A ev \in AllEvents :
                   HandleMessage(t, ev)
                     => /\ ev.type = "committed"
                             => processing_start_time' = now
                        /\ ev.type \in {"completed", "failed"}
                             => processing_start_time' = NoTime]_vars

\* The config of counter name.
ConfigOf(name) ==
    configs[CHOOSE i \in 1..Len(configs) : configs[i].name = name]

\* The counters the evaluator reported as matching in the call.
ReportedMatching(call) ==
    {n \in DOMAIN counters : MatchesFor(call.evaluated, n) > 0}

\* C31: a process_text call adds exactly one to each counter the evaluator
\* reported as matching and calls that counter's callback, when its config
\* has one, exactly once with the name and the new value; it leaves every
\* other counter as it was and calls no callback for it; a call that
\* returns, returns exactly the matching counters with their new values.
\* Over any sequence of calls every counter's value is the number of matches
\* reported for it since it was added or last reset.
C31_ProcessTextCountsMatches ==
    /\ [](/\ DOMAIN matches = DOMAIN counters
          /\ \A n \in DOMAIN counters : counters[n] = matches[n])
    /\ [][ProcessText
            => LET call == last_call'
                   CallsFor(n) == {i \in 1..Len(call.calls) :
                                     call.calls[i][2] = n}
               IN  /\ DOMAIN counters' = DOMAIN counters
                   /\ \A n \in DOMAIN counters :
                        IF n \in ReportedMatching(call)
                        THEN /\ counters'[n] = counters[n] + 1
                             /\ ConfigOf(n).callback # NoCallback
                                  => \E i \in CallsFor(n) :
                                       /\ CallsFor(n) = {i}
                                       /\ call.calls[i] =
                                            <<ConfigOf(n).callback, n,
                                              counters'[n]>>
                        ELSE /\ counters'[n] = counters[n]
                             /\ CallsFor(n) = {}
                   /\ ~call.raised
                        => call.incremented =
                             [n \in ReportedMatching(call) |->
                                counters'[n]]]_vars

\* C31 witness: with both counters added, a call in which only the rule of
\* "a" matched has returned {"a": 2} after calling the callback of "a" with
\* the value 2; "b" stands at 0.
C31_Witness ==
    /\ DOMAIN counters = {"a", "b"}
    /\ last_call.evaluated = << <<"a", "match">>, <<"b", "no match">> >>
    /\ last_call.calls = << <<"cb1", "a", 2>> >>
    /\ ~last_call.raised
    /\ DOMAIN last_call.incremented = {"a"}
    /\ last_call.incremented["a"] = 2
    /\ counters["a"] = 2
    /\ counters["b"] = 0

====
